---- MODULE Spec2Model ----
(***************************************************************************)
(* Model of the streaming run-execution protocol of autocomputer-sdk.      *)
(*                                                                         *)
(* Spec models one session of RunNamespace.astream (client.py 379-516):    *)
(* the retry loop `for attempt in range(max_retries + 1)`, the connection  *)
(* attempt, the line-by-line decode of the response stream and the three   *)
(* exception handlers.  Every yield of the generator appends one event to  *)
(* `events`, in the order the consumer receives them.                      *)
(*                                                                         *)
(* SpecLocal models one local run: LocalNamespace.connect_and_run_workflow *)
(* (local_namespaces.py 221-295) around WebSocketWorkflowClient            *)
(* .run_workflow and its tool relay (websocket_client.py 86-215), with a   *)
(* consumer that may stop consuming.  SpecRun is a session of either       *)
(* transport.                                                              *)
(*                                                                         *)
(* The objects used by direct calls have a specification each, over every  *)
(* sequence of calls: SpecVM (VMNamespace), SpecToolServer                 *)
(* (LocalToolServer), SpecManager (LocalVMManager and its hypervisor) and  *)
(* SpecValidate (validate_user_inputs_for_workflow).                       *)
(***************************************************************************)
EXTENDS Integers, Sequences, FiniteSets, TLC

\* ------------------------------------------------------------------ bounds

\* Largest max_retries argument explored (the session's own max_retries is
\* drawn from 0..MaxRetries).
MaxRetries == 2

\* Largest number of lines the server delivers during one session, over all
\* of its connections.
MaxLines == 3

\* Largest number of frames the event loop of a local run reads.
MaxFrames == 2

\* Longest base_url argument explored, in characters.
MaxUrl == 3

\* Where two sessions run side by side: the largest max_retries, and the
\* largest number of retries, lines and frames of the two sessions together.
PairSteps == 1

\* The largest number of direct calls made on one object.
MaxCalls == 3

\* The largest number of inputs a workflow defines.
MaxInputs == 2

\* ------------------------------------------------------- program constants

\* retry_delay: float = 1.0, the default of astream's parameter.
RetryDelay == 1

\* Python's None: the value of an absent optional field.
None == "None"

\* ------------------------------------------------------------- wire lines

(* A line of the response body, as response.aiter_lines() hands it over.   *)
(* `text` is what json.loads makes of it:                                  *)
(*   "blank"   empty or whitespace-only (line.strip() is falsy)            *)
(*   "invalid" not JSON (json.loads raises JSONDecodeError)                *)
(*   "scalar"  JSON that is not an object, e.g. 123 (no .get attribute)    *)
(*   "object"  a JSON object; `data` is the dict, a function from the keys *)
(*             present to their values.                                    *)
NoData == [other |-> "x"]

BlankLine == [text |-> "blank", data |-> NoData]
InvalidLine == [text |-> "invalid", data |-> NoData]
ScalarLine == [text |-> "scalar", data |-> NoData]

Obj(d) == [text |-> "object", data |-> d]

WireLines ==
    { BlankLine, InvalidLine, ScalarLine,
      Obj([type |-> "run_started"]),
      Obj([type |-> "sequence_started", sequence_id |-> "s1"]),
      Obj([type |-> "sequence_started"]),
      Obj([type |-> "sequence_status", sequence_id |-> "s1", success |-> "true"]),
      Obj([type |-> "sequence_status", sequence_id |-> "s1", success |-> "false",
           error |-> "step failed"]),
      Obj([type |-> "sequence_status", success |-> "true"]),
      Obj([type |-> "assistant", content |-> "text"]),
      Obj([type |-> "assistant"]),
      Obj([type |-> "error", error |-> "boom"]),
      Obj([type |-> "error", content |-> "boom"]),
      Obj([type |-> "run_completed"]),
      Obj([type |-> "heartbeat"]),
      Obj(NoData) }

\* dict[key] is defined (no KeyError).
Has(d, k) == k \in DOMAIN d

\* dict.get(key)
Get(d, k) == IF Has(d, k) THEN d[k] ELSE None

\* ----------------------------------------------------------------- events

(* A yielded RunMessage.  type/sequence_id/success/error/content are the   *)
(* fields of the pydantic message (None where the message has none);       *)
(* `attempt` is the attempt number printed in a retry message (0           *)
(* elsewhere).  `cls`, `conn` and `line` are history: which yield          *)
(* statement made the event, and the origin o = <<connection number, index *)
(* of the line within that connection>> of the line being processed when   *)
(* it was yielded (NoLine for an event no line gave rise to).              *)
NoLine == <<0, 0>>

Msg(type, sid, succ, err, content, att, cls, o) ==
    [type |-> type, sequence_id |-> sid, success |-> succ, error |-> err,
     content |-> content, attempt |-> att, cls |-> cls,
     conn |-> o[1], line |-> o[2]]

RunStartedMessage(n) ==
    Msg("run_started", None, None, None, None, 0, "progress", n)

RunSequenceStartedMessage(sid, n) ==
    Msg("sequence_started", sid, None, None, None, 0, "progress", n)

RunSequenceStatusMessage(sid, succ, err, n) ==
    Msg("sequence_status", sid, succ, err, None, 0, "progress", n)

RunAssistantMessage(content, n) ==
    Msg("assistant", None, None, None, content, 0, "progress", n)

RunCompletedMessage(n) ==
    Msg("run_completed", None, None, None, None, 0, "completed", n)

\* RunErrorMessage(type="error", error=...) at each of its yield statements.
ServerError(err, n) == Msg("error", None, None, err, None, 0, "server_error", n)

DecodeError(n) ==
    Msg("error", None, None, "Failed to decode message", None, 0, "decode", n)

InterruptedRetrying(att) ==
    Msg("error", None, None, "Connection interrupted. Retrying...", None,
        att + 1, "retry", NoLine)

InterruptedExhausted ==
    Msg("error", None, None, "Connection failed after all attempts", None,
        0, "exhausted", NoLine)

ConnectRetrying(att) ==
    Msg("error", None, None, "Connection error. Retrying...", None,
        att + 1, "retry", NoLine)

ConnectExhausted ==
    Msg("error", None, None, "Failed to connect after all attempts", None,
        0, "exhausted", NoLine)

UnexpectedError(n) ==
    Msg("error", None, None, "Unexpected error", None, 0, "unexpected", n)

\* ------------------------------------------------------------------ state

VARIABLES
    max_retries,  \* astream's max_retries argument
    attempt,      \* the loop variable of `for attempt in range(max_retries + 1)`
    pc,           \* where the generator is: "connect", "stream",
                  \* "sleep_connect", "sleep_stream" (in asyncio.sleep), "done"
    events,       \* the messages yielded so far, in order
    connects,     \* history: connection attempts made (client.stream entered)
    opened,       \* history: attempts that reached the line loop
    rejected,     \* history: <<attempt number, events yielded before>> of the
                  \* attempt the server answered with 4xx/5xx (<<0, 0>>: none)
    nread,        \* lines read from the current response so far
    decoded,      \* history: of these, the frames IsDecodable holds of
    total,        \* history: lines read during the session, all connections
    termAt,       \* history: index of the first run_completed or error frame
                  \* read on the current connection (0: none yet)
    delays,       \* history: the durations slept, in order
    closes        \* history: exits of `async with client.stream(...) as response`
                  \* after the response was obtained (the transport released)

(* The state of a local run: LocalNamespace.connect_and_run_workflow       *)
(* around WebSocketWorkflowClient.run_workflow, or run_workflow called     *)
(* directly, with the LocalToolServer it is given.                         *)
VARIABLES
    entry,        \* how the local run was started: "connect_and_run_workflow",
                  \* "run_workflow", or "none" (the session is a remote one)
    lpc,          \* where the local generators are (see the actions)
    levents,      \* the messages yielded to the consumer so far, in order
    session,      \* LocalToolServer._session: "none" or "open"
    tool_closes,  \* history: calls of LocalToolServer.close
    ws_opens,     \* history: successful session.ws_connect calls
    ws_closes,    \* history: exits of `async with session.ws_connect(...) as ws`
    peer_closed,  \* the channel was closed under the client (a CLOSE, CLOSED
                  \* or ERROR message was received): sends fail from then on
    sent,         \* history: the ws.send_str calls, in order, with their outcome
    lread,        \* frames read by the event loop `async for msg in ws`
    ack,          \* history: the message received in reply to configure:
                  \* "none" (not yet), "configure_ack", "TEXT" (another
                  \* text) or the kind of a message that is no text
    ignored,      \* history: frames of unrecognised type the event loop read
    reqs,         \* history: the tool_request dicts read, in order
    req,          \* the tool_request being relayed (NoData when none is)
    result,       \* the content of the tool_response about to be written
    calls,        \* history: the execute_tool calls made, in order
    suspended     \* the generator is suspended at a yield (the consumer holds
                  \* the last message), not inside an await

remote == <<max_retries, attempt, pc, events, connects, opened, rejected, nread,
            decoded, total, termAt, delays, closes>>

local == <<entry, lpc, levents, session, tool_closes, ws_opens, ws_closes,
           peer_closed, sent, lread, ack, ignored, reqs, req, result, calls,
           suspended>>

(* The client object the sessions are started on, and the arguments it    *)
(* was constructed from.                                                   *)
VARIABLES
    args,         \* the arguments of AutoComputerClient(base_url, api_key)
    client        \* the constructed AutoComputerClient (NoClient before)

(* The objects of the local-execution side that are used by direct calls   *)
(* rather than by a session.                                               *)
VARIABLES
    vm_manager,   \* VMNamespace.vm_manager: None or the injected manager
    running_vms,  \* VMNamespace._running_vms: the keys of the dict, in
                  \* insertion order
    history,      \* history: the calls made so far, with what came of each
    vbox          \* the hypervisor a LocalVMManager drives: the VMs that are
                  \* running, and whether the manager has a tunnel manager

host == <<vm_manager, running_vms, history, vbox>>

objects == <<args, client, host>>

vars == <<remote, local, objects>>

\* ----------------------------------------------------- client construction

(* A string is a sequence of characters; UrlChars are the characters the   *)
(* base_url arguments are made of.                                         *)
UrlChars == {"h", ":", "/"}

Urls == UNION {[1..n -> UrlChars] : n \in 0..MaxUrl}

ApiKeys == {"key-1", "key-2"}

RECURSIVE LStrip(_)
\* str.lstrip("/")
LStrip(s) == IF s # <<>> /\ s[1] = "/" THEN LStrip(Tail(s)) ELSE s

RECURSIVE RStrip(_)

\* Mutant of RStrip: slashes are removed at both ends (str.strip).
Strip(s) ==
    IF s # <<>> /\ s[Len(s)] = "/" THEN RStrip(SubSeq(s, 1, Len(s) - 1))
    ELSE LStrip(s)

\* str.rstrip("/"): the string without its trailing slashes.
RStrip(s) ==
    IF s # <<>> /\ s[Len(s)] = "/" THEN RStrip(SubSeq(s, 1, Len(s) - 1)) ELSE s

\* self.headers of the client.
Headers(api_key) ==
    ("X-API-Key" :> api_key) @@ ("Content-Type" :> "application/json")

\* BaseNamespace.__init__: the namespace takes the client's base_url and headers.
BaseNamespace(c) == [base_url |-> c.base_url, headers |-> c.headers]

\* No client has been constructed.
NoClient == [constructed |-> FALSE]

\* AutoComputerClient.__init__
AutoComputerClient(base_url, api_key) ==
    LET c == [base_url |-> RStrip(base_url), api_key |-> api_key,
              headers |-> Headers(api_key)]
    IN [constructed |-> TRUE, base_url |-> c.base_url, api_key |-> c.api_key,
        headers |-> c.headers, workflows |-> BaseNamespace(c),
        run |-> BaseNamespace(c), computer |-> BaseNamespace(c),
        local |-> BaseNamespace(c)]

\* The client the sessions of the other specifications run on.
ClientReady ==
    /\ args = [base_url |-> <<"h">>, api_key |-> "key-1"]
    /\ client = AutoComputerClient(<<"h">>, "key-1")

\* --------------------------------------------------------------- decoding

(* The body of the `async for line` loop for one line: what it yields and  *)
(* how control leaves it.  ctl is "continue" (next line), "return" (the    *)
(* generator returns) or "raise" (an exception other than JSONDecodeError  *)
(* leaves the inner try: KeyError for a missing required key,              *)
(* AttributeError for JSON that is not an object).                         *)
Step(yield, ctl) == [yield |-> yield, ctl |-> ctl]

\* Mutant of OnRunCompleted: the `return` after the Completed yield is missing.
OnRunCompletedNoReturn(n) == Step(<<RunCompletedMessage(n)>>, "continue")

\* elif message_type == "run_completed": yield the message, then return.
OnRunCompleted(n) == Step(<<RunCompletedMessage(n)>>, "return")

\* Mutant of OnUnknownType: a type without a branch is an error.
OnUnknownTypeFatal(n) == Step(<<>>, "raise")

\* No branch of the if/elif chain matches: nothing is yielded, next line.
OnUnknownType(n) == Step(<<>>, "continue")

(* Mutant of OnSequenceStatus: a status is yielded only for a sequence a   *)
(* sequence_started event was yielded for; any other status is dropped.    *)
OnSequenceStatusValidated(d, n) ==
    IF Has(d, "sequence_id") /\ Has(d, "success")
    THEN IF \E i \in 1..Len(events) :
                /\ events[i].type = "sequence_started"
                /\ events[i].sequence_id = d["sequence_id"]
         THEN Step(<<RunSequenceStatusMessage(d["sequence_id"], d["success"],
                                             Get(d, "error"), n)>>, "continue")
         ELSE Step(<<>>, "continue")
    ELSE Step(<<>>, "raise")

\* Mutant of OnSequenceStatus: a well-formed status frame is read and dropped.
OnSequenceStatusDropped(d, n) ==
    IF Has(d, "sequence_id") /\ Has(d, "success")
    THEN Step(<<>>, "continue")
    ELSE Step(<<>>, "raise")

\* elif message_type == "sequence_status": the message is built from the
\* frame's own fields.
OnSequenceStatus(d, n) ==
    IF Has(d, "sequence_id") /\ Has(d, "success")
    THEN Step(<<RunSequenceStatusMessage(d["sequence_id"], d["success"],
                                         Get(d, "error"), n)>>, "continue")
    ELSE Step(<<>>, "raise")

\* Mutant of OnBlankLine: the line goes to json.loads, which rejects it.
OnBlankLineReported(n) == Step(<<DecodeError(n)>>, "continue")

\* if not line.strip(): continue
OnBlankLine(n) == Step(<<>>, "continue")

HandleLine(l, n) ==
    IF l.text = "blank" THEN OnBlankLine(n)
    ELSE IF l.text = "invalid" THEN Step(<<DecodeError(n)>>, "continue")
    ELSE IF l.text = "scalar" THEN Step(<<>>, "raise")
    ELSE LET d == l.data
             t == Get(d, "type")
         IN CASE t = "run_started" ->
                    Step(<<RunStartedMessage(n)>>, "continue")
              [] t = "sequence_started" ->
                    IF Has(d, "sequence_id")
                    THEN Step(<<RunSequenceStartedMessage(d["sequence_id"], n)>>,
                              "continue")
                    ELSE Step(<<>>, "raise")
              [] t = "sequence_status" -> OnSequenceStatus(d, n)
              [] t = "assistant" ->
                    IF Has(d, "content")
                    THEN Step(<<RunAssistantMessage(d["content"], n)>>, "continue")
                    ELSE Step(<<>>, "raise")
              [] t = "error" ->
                    IF Has(d, "error")
                    THEN Step(<<ServerError(d["error"], n)>>, "continue")
                    ELSE Step(<<>>, "raise")
              [] t = "run_completed" ->
                    OnRunCompleted(n)
              [] OTHER -> OnUnknownType(n)

\* The line is a run_completed frame or a server error frame.
IsTerminalFrame(l) ==
    l.text = "object" /\ Get(l.data, "type") \in {"run_completed", "error"}

(* The line is a frame of the wire shape with its required fields: type   *)
(* one of the six message types of RunMessage, and every field the message *)
(* class declares without a default present.                               *)
IsDecodable(l) ==
    /\ l.text = "object"
    /\ LET d == l.data
           t == Get(d, "type")
       IN \/ t \in {"run_started", "run_completed"}
          \/ t = "sequence_started" /\ Has(d, "sequence_id")
          \/ t = "sequence_status" /\ Has(d, "sequence_id") /\ Has(d, "success")
          \/ t = "assistant" /\ Has(d, "content")
          \/ t = "error" /\ Has(d, "error")

\* ----------------------------------------------------- local run: frames

(* A message of the WebSocket as ws.receive() hands it over: its           *)
(* aiohttp.WSMsgType `kind` and, for a TEXT message, what json.loads makes *)
(* of msg.data (`text` and `data` as for a wire line; an empty TEXT is     *)
(* "invalid": the loop has no blank test).  The content of a tool_request  *)
(* is a nested dict: `content |-> "dict"` says the key is present, and the *)
(* keys of the nested dict are modelled beside it.                         *)
WsText(l) == [kind |-> "TEXT", text |-> l.text, data |-> l.data]

WsOther(k) == [kind |-> k, text |-> "none", data |-> NoData]

ToolRequest == [type |-> "tool_request", content |-> "dict",
                tool_name |-> "click", payload |-> "x10y20"]

TypeRequest == [type |-> "tool_request", content |-> "dict",
                tool_name |-> "type", payload |-> "hello"]

WsFrames ==
    { WsText(InvalidLine), WsText(ScalarLine),
      WsText(Obj([type |-> "configure_ack", content |-> "ok"])),
      WsText(Obj(ToolRequest)),
      WsText(Obj(TypeRequest)),
      WsText(Obj([type |-> "tool_request", content |-> "dict", payload |-> "x10y20"])),
      WsText(Obj([type |-> "tool_request", content |-> "dict", tool_name |-> "click"])),
      WsText(Obj([type |-> "tool_request"])),
      WsText(Obj([type |-> "assistant", content |-> "text"])),
      WsText(Obj([type |-> "assistant"])),
      WsText(Obj([type |-> "sequence_status", sequence_id |-> "s1", success |-> "true"])),
      WsText(Obj([type |-> "sequence_status", sequence_id |-> "s1", success |-> "false",
                  error |-> "step failed"])),
      WsText(Obj([type |-> "sequence_status", success |-> "true"])),
      WsText(Obj([type |-> "workflow_completed", content |-> "done"])),
      WsText(Obj([type |-> "error", content |-> "boom"])),
      WsText(Obj([type |-> "error", error |-> "boom"])),
      WsText(Obj([type |-> "heartbeat"])),
      WsText(Obj([type |-> "run_started"])),
      WsText(Obj([type |-> "sequence_started", sequence_id |-> "s1"])),
      WsText(Obj([type |-> "run_completed"])),
      WsText(Obj(NoData)),
      WsOther("BINARY"), WsOther("ERROR"), WsOther("CLOSE") }

\* The message ends the connection: aiohttp has closed the socket when
\* receive() returns it (CLOSE, CLOSING, CLOSED or ERROR).
EndsChannel(f) == f.kind \in {"ERROR", "CLOSE"}

\* ----------------------------------------------------- local run: events

\* yield RunErrorMessage(error=f"WebSocket execution failed: {e}")
WsFailed == Msg("error", None, None, "WebSocket execution failed", None, 0,
                "failed", NoLine)

\* yield RunErrorMessage(error=f"WebSocket error: {ws.exception()}")
WsErrorEvent(n) == Msg("error", None, None, "WebSocket error", None, 0,
                       "ws_error", <<1, n>>)

\* connect_and_run_workflow: yield RunErrorMessage(type="error", error=str(e))
StartFailed == Msg("error", None, None, "Failed to connect to tool server", None,
                   0, "start_failed", NoLine)

(* A ws.send_str call: the message type and content, whether the write     *)
(* succeeded, and (history) the number of the tool request it answers.     *)
Sent(type, content, ok, for) ==
    [type |-> type, content |-> content, ok |-> ok, for |-> for]

ConfigureMessage(ok) == Sent("configure", [config |-> "snapshot"], ok, 0)

\* Mutant of StartWorkflowMessage: the config snapshot is sent again.
StartWorkflowMessageReconfigures(ok) == Sent("configure", [config |-> "snapshot"], ok, 0)

StartWorkflowMessage(ok) == Sent("start_workflow", [workflow |-> "w"], ok, 0)

WSToolResponseMessage(content, ok, for) == Sent("tool_response", content, ok, for)

(* What the POST to the tool endpoint can do: answer 200 with a JSON body  *)
(* ("ok": an output; "ok_image": an output and a screenshot), answer       *)
(* another status, or fail (unreachable, bad body).                        *)
EndpointOutcomes == {"ok", "ok_image", "status", "unreachable"}

\* The endpoint answered 200.
IsSuccess(outcome) == outcome \in {"ok", "ok_image"}

(* LocalToolServer.execute_tool once the session exists: the dict it       *)
(* returns for each outcome of the POST.                                   *)
ExecuteTool(outcome) ==
    CASE outcome = "ok" -> [output |-> "ok"]
      [] outcome = "ok_image" -> [output |-> "ok", base64_image |-> "png"]
      [] outcome = "status" -> [error |-> "Tool server error"]
      [] OTHER -> [error |-> "Tool execution failed"]

\* execute_tool without a session: raise RuntimeError("Tool server not started")
NotStarted == [raised |-> "Tool server not started"]

(* One call of tool_server.execute_tool(tool_name, payload): the number of *)
(* the tool request it serves (history), its arguments and what came back. *)
Call(for, tool_name, payload, r) ==
    [for |-> for, tool_name |-> tool_name, payload |-> payload, result |-> r]

\* _handle_tool_request's except: content={"error": f"Tool execution failed: ..."}
RelayErrorContent == [error |-> "Tool execution failed"]

(* The loop body of run_workflow for one TEXT message that is no           *)
(* tool_request: what it yields and how control leaves it ("continue",     *)
(* "break", or "raise" for an exception other than JSONDecodeError).       *)
WsOnSequenceStatus(d, n) ==
    IF Has(d, "sequence_id") /\ Has(d, "success")
    THEN Step(<<RunSequenceStatusMessage(d["sequence_id"], d["success"],
                                         Get(d, "error"), <<1, n>>)>>, "continue")
    ELSE Step(<<>>, "raise")

WsHandleText(f, n) ==
    IF f.text = "invalid" THEN Step(<<DecodeError(<<1, n>>)>>, "continue")
    ELSE IF f.text = "scalar" THEN Step(<<>>, "raise")
    ELSE LET d == f.data
             t == Get(d, "type")
         IN CASE t = "assistant" ->
                    IF Has(d, "content")
                    THEN Step(<<RunAssistantMessage(d["content"], <<1, n>>)>>, "continue")
                    ELSE Step(<<>>, "raise")
              [] t = "sequence_status" -> WsOnSequenceStatus(d, n)
              [] t = "workflow_completed" ->
                    Step(<<RunCompletedMessage(<<1, n>>)>>, "break")
              [] t = "error" ->
                    IF Has(d, "content")
                    THEN Step(<<ServerError(d["content"], <<1, n>>)>>, "break")
                    ELSE Step(<<>>, "raise")
              [] OTHER -> Step(<<>>, "continue")

\* The message types the event loop of run_workflow has a branch for.
WsKnownTypes ==
    {"tool_request", "assistant", "sequence_status", "workflow_completed", "error"}

\* The message is a TEXT message holding a JSON object whose type is absent
\* or has no branch.
IsUnknownFrame(f) ==
    f.kind = "TEXT" /\ f.text = "object" /\ Get(f.data, "type") \notin WsKnownTypes

\* The message is a TEXT message holding a tool_request.
IsToolRequest(f) ==
    f.kind = "TEXT" /\ f.text = "object" /\ Get(f.data, "type") = "tool_request"

\* ------------------------------------------------------------ initial state

\* No direct call was made: VMNamespace as constructed by the client.
HostIdle ==
    /\ vm_manager = None
    /\ running_vms = <<>>
    /\ history = <<>>
    /\ vbox = [running |-> {}, tunnel_manager |-> FALSE]

\* No local run: the values the local variables keep during a remote session.
LocalIdle ==
    /\ entry = "none"
    /\ lpc = "idle"
    /\ levents = <<>>
    /\ session = "none"
    /\ tool_closes = 0
    /\ ws_opens = 0
    /\ ws_closes = 0
    /\ peer_closed = FALSE
    /\ sent = <<>>
    /\ lread = 0
    /\ ack = "none"
    /\ ignored = 0
    /\ reqs = <<>>
    /\ req = NoData
    /\ result = NoData
    /\ calls = <<>>
    /\ suspended = FALSE

Init ==
    /\ max_retries \in 0..MaxRetries
    /\ attempt = 0
    /\ pc = "connect"
    /\ events = <<>>
    /\ connects = 0
    /\ opened = 0
    /\ rejected = <<0, 0>>
    /\ nread = 0
    /\ decoded = 0
    /\ total = 0
    /\ termAt = 0
    /\ delays = <<>>
    /\ closes = 0
    /\ LocalIdle
    /\ ClientReady
    /\ HostIdle

\* ---------------------------------------------------------------- actions

\* Mutant of OnRequestError: the retry is silent, no message is yielded.
OnRequestErrorSilent ==
    IF attempt < max_retries
    THEN /\ events' = events
         /\ delays' = Append(delays, RetryDelay * (attempt + 1))
         /\ pc' = "sleep_connect"
    ELSE /\ events' = Append(events, ConnectExhausted)
         /\ delays' = delays
         /\ pc' = "done"

\* Mutant of OnRequestError: the budget test is off by one.
OnRequestErrorOffByOne ==
    IF attempt <= max_retries
    THEN /\ events' = Append(events, ConnectRetrying(attempt))
         /\ delays' = Append(delays, RetryDelay * (attempt + 1))
         /\ pc' = "sleep_connect"
    ELSE /\ events' = Append(events, ConnectExhausted)
         /\ delays' = delays
         /\ pc' = "done"

\* Mutant of OnRequestError: the messages already yielded from the failed
\* connection are yielded again after the retry message.
OnRequestErrorReplay ==
    IF attempt < max_retries
    THEN /\ events' = Append(events, ConnectRetrying(attempt))
                        \o SelectSeq(events, LAMBDA e : e.conn = connects /\ e.line >= 1)
         /\ delays' = Append(delays, RetryDelay * (attempt + 1))
         /\ pc' = "sleep_connect"
    ELSE /\ events' = Append(events, ConnectExhausted)
         /\ delays' = delays
         /\ pc' = "done"

(* except (httpx.ConnectError, httpx.TimeoutException, httpx.RequestError) *)
(* around the whole attempt: with budget left, yield the retry message,    *)
(* sleep, `continue`; otherwise yield the final message and return.        *)
OnRequestError ==
    IF attempt < max_retries
    THEN /\ events' = Append(events, ConnectRetrying(attempt))
         /\ delays' = Append(delays, RetryDelay * (attempt + 1))
         /\ pc' = "sleep_connect"
    ELSE /\ events' = Append(events, ConnectExhausted)
         /\ delays' = delays
         /\ pc' = "done"

(* except (httpx.ReadError, httpx.RemoteProtocolError) around the line     *)
(* loop: with budget left, yield the retry message, sleep, `break`;        *)
(* otherwise yield the final message and return.                           *)
OnReadError ==
    IF attempt < max_retries
    THEN /\ events' = Append(events, InterruptedRetrying(attempt))
         /\ delays' = Append(delays, RetryDelay * (attempt + 1))
         /\ pc' = "sleep_stream"
    ELSE /\ events' = Append(events, InterruptedExhausted)
         /\ delays' = delays
         /\ pc' = "done"

\* except Exception: yield "Unexpected error" and return.
OnException(n) ==
    /\ events' = Append(events, UnexpectedError(n))
    /\ pc' = "done"

\* client.stream("POST", ...) connects and raise_for_status() passes.
ConnectOk ==
    /\ pc = "connect"
    /\ connects' = connects + 1
    /\ opened' = opened + 1
    /\ nread' = 0
    /\ decoded' = 0
    /\ termAt' = 0
    /\ pc' = "stream"
    /\ UNCHANGED <<max_retries, attempt, events, rejected, total, delays>>
    /\ closes' = closes
    /\ UNCHANGED local
    /\ UNCHANGED objects

\* client.stream raises ConnectError, a timeout or another RequestError.
ConnectFail ==
    /\ pc = "connect"
    /\ connects' = connects + 1
    /\ OnRequestError
    /\ UNCHANGED <<max_retries, attempt, opened, rejected, nread, decoded, total, termAt>>
    /\ closes' = closes
    /\ UNCHANGED local
    /\ UNCHANGED objects

\* Mutant of ConnectRejected: the status error is handled as a connect error
\* and retried.
ConnectRejectedRetried ==
    /\ pc = "connect"
    /\ connects' = connects + 1
    /\ rejected' = <<connects + 1, Len(events)>>
    /\ OnRequestError
    /\ UNCHANGED <<max_retries, attempt, opened, nread, decoded, total, termAt>>
    /\ closes' = closes + 1
    /\ UNCHANGED local
    /\ UNCHANGED objects

\* The server answers 4xx/5xx: raise_for_status() raises HTTPStatusError,
\* which is no RequestError and reaches `except Exception`.
ConnectRejected ==
    /\ pc = "connect"
    /\ connects' = connects + 1
    /\ rejected' = <<connects + 1, Len(events)>>
    /\ OnException(NoLine)
    /\ UNCHANGED <<max_retries, attempt, opened, nread, decoded, total, termAt, delays>>
    /\ closes' = closes + 1
    /\ UNCHANGED local
    /\ UNCHANGED objects

\* One line arrives and the loop body runs on it.
ReadLine(l) ==
    /\ pc = "stream"
    /\ total < MaxLines
    /\ LET n == <<connects, nread + 1>>
           r == HandleLine(l, n)
       IN /\ nread' = nread + 1
          /\ total' = total + 1
          /\ termAt' = IF termAt = 0 /\ IsTerminalFrame(l) THEN nread + 1 ELSE termAt
          /\ decoded' = IF IsDecodable(l) THEN decoded + 1 ELSE decoded
          /\ CASE r.ctl = "continue" ->
                    /\ events' = events \o r.yield
                    /\ pc' = "stream"
               [] r.ctl = "return" ->
                    /\ events' = events \o r.yield
                    /\ pc' = "done"
               [] r.ctl = "raise" ->
                    OnException(n)
    /\ UNCHANGED <<max_retries, attempt, connects, opened, rejected, delays>>
    /\ closes' = IF HandleLine(l, <<connects, nread + 1>>).ctl = "continue"
                 THEN closes ELSE closes + 1
    /\ UNCHANGED local
    /\ UNCHANGED objects

\* The response body ends: the line loop finishes and line 493 returns.
StreamEnd ==
    /\ pc = "stream"
    /\ pc' = "done"
    /\ UNCHANGED <<max_retries, attempt, events, connects, opened, rejected,
                   nread, decoded, total, termAt, delays>>
    /\ closes' = closes + 1
    /\ UNCHANGED local
    /\ UNCHANGED objects

\* aiter_lines raises ReadError or RemoteProtocolError.
StreamReadError ==
    /\ pc = "stream"
    /\ OnReadError
    /\ UNCHANGED <<max_retries, attempt, connects, opened, rejected, nread,
                   decoded, total, termAt>>
    /\ closes' = IF attempt < max_retries THEN closes ELSE closes + 1
    /\ UNCHANGED local
    /\ UNCHANGED objects

\* aiter_lines raises a RequestError the inner handler does not name (for
\* example DecodingError): the outer handler treats it as a connect error.
StreamRequestError ==
    /\ pc = "stream"
    /\ OnRequestError
    /\ UNCHANGED <<max_retries, attempt, connects, opened, rejected, nread,
                   decoded, total, termAt>>
    /\ closes' = closes + 1
    /\ UNCHANGED local
    /\ UNCHANGED objects

\* Mutant of WakeConnect: the retry does not advance the attempt counter.
WakeConnectNoCount ==
    /\ pc = "sleep_connect"
    /\ attempt' = attempt
    /\ pc' = "connect"
    /\ UNCHANGED <<max_retries, events, connects, opened, rejected, nread,
                   decoded, total, termAt, delays>>
    /\ closes' = closes
    /\ UNCHANGED local
    /\ UNCHANGED objects

(* asyncio.sleep returns in the outer handler: `continue` takes the next   *)
(* value of range(max_retries + 1), and the generator ends when there is   *)
(* none.                                                                   *)
WakeConnect ==
    /\ pc = "sleep_connect"
    /\ IF attempt + 1 < max_retries + 1
       THEN attempt' = attempt + 1 /\ pc' = "connect"
       ELSE attempt' = attempt /\ pc' = "done"
    /\ UNCHANGED <<max_retries, events, connects, opened, rejected, nread,
                   decoded, total, termAt, delays>>
    /\ closes' = closes
    /\ UNCHANGED local
    /\ UNCHANGED objects

\* asyncio.sleep returns in the inner handler: `break` leaves the enclosing
\* loop, which is `for attempt in range(...)`, and the generator ends.
WakeStream ==
    /\ pc = "sleep_stream"
    /\ pc' = "done"
    /\ UNCHANGED <<max_retries, attempt, events, connects, opened, rejected,
                   nread, decoded, total, termAt, delays>>
    /\ closes' = closes + 1
    /\ UNCHANGED local
    /\ UNCHANGED objects

Next ==
    \/ ConnectOk
    \/ ConnectFail
    \/ ConnectRejected
    \/ \E l \in WireLines : ReadLine(l)
    \/ StreamEnd
    \/ StreamReadError
    \/ StreamRequestError
    \/ WakeConnect
    \/ WakeStream

Spec == Init /\ [][Next]_vars

\* The lines of a server that keeps to the wire shape: decodable frames, and
\* blank lines between them.
ShapedLines == {l \in WireLines : l = BlankLine \/ IsDecodable(l)}

NextShaped ==
    \/ ConnectOk
    \/ ConnectFail
    \/ ConnectRejected
    \/ \E l \in ShapedLines : ReadLine(l)
    \/ StreamEnd
    \/ StreamReadError
    \/ StreamRequestError
    \/ WakeConnect
    \/ WakeStream

\* A remote session with a server that keeps to the wire shape.
SpecShaped == Init /\ [][NextShaped]_vars

\* ---------------------------------------------------- remote cancellation

\* Responses obtained so far (the line loop reached, or a 4xx/5xx answer).
Opens == opened + (IF rejected[1] # 0 THEN 1 ELSE 0)

\* Mutant of RemoteCancel: the response is not released.
RemoteCancelLeaks ==
    /\ pc \in {"connect", "stream", "sleep_connect", "sleep_stream"}
    /\ pc' = "cancelled"
    /\ UNCHANGED <<max_retries, attempt, events, connects, opened, rejected,
                   nread, decoded, total, termAt, delays, closes>>
    /\ UNCHANGED local
    /\ UNCHANGED objects

(* The consumer stops consuming astream (aclose at the yield it is         *)
(* suspended at, or cancellation of the task during an await):             *)
(* GeneratorExit or CancelledError is no Exception, so no handler runs;    *)
(* the `async with` blocks release the response if one is held.            *)
RemoteCancel ==
    /\ pc \in {"connect", "stream", "sleep_connect", "sleep_stream"}
    /\ pc' = "cancelled"
    /\ closes' = IF Opens > closes THEN closes + 1 ELSE closes
    /\ UNCHANGED <<max_retries, attempt, events, connects, opened, rejected,
                   nread, decoded, total, termAt, delays>>
    /\ UNCHANGED local
    /\ UNCHANGED objects

\* -------------------------------------------------------------- local run

\* No remote session: the values the remote variables keep during a local run.
RemoteIdle ==
    /\ max_retries = 0
    /\ attempt = 0
    /\ pc = "idle"
    /\ events = <<>>
    /\ connects = 0
    /\ opened = 0
    /\ rejected = <<0, 0>>
    /\ nread = 0
    /\ decoded = 0
    /\ total = 0
    /\ termAt = 0
    /\ delays = <<>>
    /\ closes = 0

(* A local run starts either in connect_and_run_workflow, with a new       *)
(* LocalToolServer, or in run_workflow with the tool server the caller     *)
(* passes, started or not.                                                 *)
InitLocal ==
    /\ RemoteIdle
    /\ ClientReady
    /\ HostIdle
    /\ entry \in {"connect_and_run_workflow", "run_workflow"}
    /\ lpc = IF entry = "connect_and_run_workflow" THEN "start_tool" ELSE "connect"
    /\ session \in (IF entry = "run_workflow" THEN {"none", "open"} ELSE {"none"})
    /\ levents = <<>>
    /\ tool_closes = 0
    /\ ws_opens = 0
    /\ ws_closes = 0
    /\ peer_closed = FALSE
    /\ sent = <<>>
    /\ lread = 0
    /\ ack = "none"
    /\ ignored = 0
    /\ reqs = <<>>
    /\ req = NoData
    /\ result = NoData
    /\ calls = <<>>
    /\ suspended = FALSE

\* The `async with session.ws_connect(...) as ws` block is entered.
WsOpen == ws_opens > ws_closes

\* Where control goes when run_workflow's generator is exhausted: back into
\* connect_and_run_workflow (its finally), or nowhere.
InnerEnd == IF entry = "connect_and_run_workflow" THEN "finally" ELSE "done"

\* Mutant of OnWsException: after the Error the run goes back to connecting.
OnWsExceptionRetries ==
    /\ ws_closes' = IF WsOpen THEN ws_closes + 1 ELSE ws_closes
    /\ levents' = Append(levents, WsFailed)
    /\ suspended' = TRUE
    /\ lpc' = "connect"

(* An exception reaches run_workflow's `except Exception`: it has left the *)
(* `async with ... as ws` block if that was entered, and the handler       *)
(* yields the "WebSocket execution failed" Error.                          *)
OnWsException ==
    /\ ws_closes' = IF WsOpen THEN ws_closes + 1 ELSE ws_closes
    /\ levents' = Append(levents, WsFailed)
    /\ suspended' = TRUE
    /\ lpc' = "exiting"

(* connect_and_run_workflow: await tool_server.start().  A start that      *)
(* fails closes the session it opened and raises; the except clause yields *)
(* the Error.                                                              *)
StartToolServer(ok) ==
    /\ lpc = "start_tool"
    /\ IF ok
       THEN /\ session' = "open"
            /\ lpc' = "connect"
            /\ UNCHANGED <<tool_closes, levents, suspended>>
       ELSE /\ session' = "none"
            /\ tool_closes' = tool_closes + 1
            /\ levents' = Append(levents, StartFailed)
            /\ suspended' = TRUE
            /\ lpc' = "start_failed"
    /\ UNCHANGED <<entry, ws_opens, ws_closes, peer_closed, sent, lread, reqs,
                   req, result, calls>>
    /\ UNCHANGED <<ack, ignored>>
    /\ UNCHANGED remote
    /\ UNCHANGED objects

\* run_workflow: session.ws_connect(ws_url, headers=...).
WsConnect(ok) ==
    /\ lpc = "connect"
    /\ IF ok
       THEN /\ ws_opens' = ws_opens + 1
            /\ lpc' = "configure"
            /\ suspended' = FALSE
            /\ UNCHANGED <<ws_closes, levents>>
       ELSE /\ ws_opens' = ws_opens
            /\ OnWsException
    /\ UNCHANGED <<entry, session, tool_closes, peer_closed, sent, lread, reqs,
                   req, result, calls>>
    /\ UNCHANGED <<ack, ignored>>
    /\ UNCHANGED remote
    /\ UNCHANGED objects

\* await ws.send_str(config_msg.model_dump_json())
WsSendConfigure(ok) ==
    /\ lpc = "configure"
    /\ sent' = Append(sent, ConfigureMessage(ok))
    /\ IF ok
       THEN /\ lpc' = "await_ack"
            /\ UNCHANGED <<ws_closes, levents, suspended>>
       ELSE OnWsException
    /\ UNCHANGED <<entry, session, tool_closes, ws_opens, peer_closed, lread,
                   reqs, req, result, calls>>
    /\ UNCHANGED <<ack, ignored>>
    /\ UNCHANGED remote
    /\ UNCHANGED objects

(* config_ack = await ws.receive(): a TEXT message must decode to an       *)
(* object of type configure_ack (anything else raises); a message of       *)
(* another kind is not looked at.                                          *)
AckOf(f) ==
    IF f.kind # "TEXT" THEN f.kind
    ELSE IF f.text = "object" /\ Get(f.data, "type") = "configure_ack"
         THEN "configure_ack" ELSE "TEXT"

WsReceiveAck(f) ==
    /\ lpc = "await_ack"
    /\ peer_closed' = EndsChannel(f)
    /\ ack' = AckOf(f)
    /\ ignored' = ignored
    /\ IF f.kind = "TEXT"
          /\ ~(f.text = "object" /\ Get(f.data, "type") = "configure_ack")
       THEN OnWsException
       ELSE /\ lpc' = "start"
            /\ UNCHANGED <<ws_closes, levents, suspended>>
    /\ UNCHANGED <<entry, session, tool_closes, ws_opens, sent, lread, reqs,
                   req, result, calls>>
    /\ UNCHANGED remote
    /\ UNCHANGED objects

\* Mutant of WsSendStart: Started is yielded before the write is known to
\* have succeeded.
WsSendStartYieldsFirst(ok) ==
    /\ lpc = "start"
    /\ peer_closed => ~ok
    /\ sent' = Append(sent, StartWorkflowMessage(ok))
    /\ suspended' = TRUE
    /\ IF ok
       THEN /\ levents' = Append(levents, RunStartedMessage(NoLine))
            /\ lpc' = "loop"
            /\ ws_closes' = ws_closes
       ELSE /\ levents' = levents \o <<RunStartedMessage(NoLine), WsFailed>>
            /\ lpc' = "exiting"
            /\ ws_closes' = IF WsOpen THEN ws_closes + 1 ELSE ws_closes
    /\ UNCHANGED <<entry, session, tool_closes, ws_opens, peer_closed, lread,
                   reqs, req, result, calls>>
    /\ UNCHANGED <<ack, ignored>>
    /\ UNCHANGED remote
    /\ UNCHANGED objects

(* await ws.send_str(start_msg.model_dump_json()), then yield the Started  *)
(* message.  The write fails on a channel that has been closed.            *)
WsSendStart(ok) ==
    /\ lpc = "start"
    /\ peer_closed => ~ok
    /\ sent' = Append(sent, StartWorkflowMessage(ok))
    /\ IF ok
       THEN /\ levents' = Append(levents, RunStartedMessage(NoLine))
            /\ suspended' = TRUE
            /\ lpc' = "loop"
            /\ ws_closes' = ws_closes
       ELSE OnWsException
    /\ UNCHANGED <<entry, session, tool_closes, ws_opens, peer_closed, lread,
                   reqs, req, result, calls>>
    /\ UNCHANGED <<ack, ignored>>
    /\ UNCHANGED remote
    /\ UNCHANGED objects

\* Mutant of CanRead: the loop takes the next message while a tool call's
\* response is still to be written.
CanReadDuringRelay == lpc \in {"loop", "relay_send"}

\* The event loop may take the next message: no tool request is being relayed.
CanRead == lpc = "loop"

(* One iteration of `async for msg in ws`.  A tool_request goes to          *)
(* _handle_tool_request; another TEXT message is decoded; an ERROR message *)
(* yields an Error and breaks; CLOSE ends the iteration; any other kind is *)
(* skipped.                                                                *)
WsReadFrame(f) ==
    /\ CanRead
    /\ lread < MaxFrames
    /\ lread' = lread + 1
    /\ peer_closed' = (peer_closed \/ EndsChannel(f))
    /\ ack' = ack
    /\ ignored' = IF IsUnknownFrame(f) THEN ignored + 1 ELSE ignored
    /\ LET n == lread + 1
           r == WsHandleText(f, n)
       IN CASE IsToolRequest(f) ->
                 /\ reqs' = Append(reqs, f.data)
                 /\ req' = f.data
                 /\ lpc' = "relay"
                 /\ suspended' = FALSE
                 /\ UNCHANGED <<levents, ws_closes>>
            [] f.kind = "TEXT" /\ ~IsToolRequest(f) /\ r.ctl = "continue" ->
                 /\ levents' = levents \o r.yield
                 /\ suspended' = (r.yield # <<>>)
                 /\ lpc' = "loop"
                 /\ UNCHANGED <<reqs, req, ws_closes>>
            [] f.kind = "TEXT" /\ ~IsToolRequest(f) /\ r.ctl = "break" ->
                 /\ levents' = levents \o r.yield
                 /\ suspended' = TRUE
                 /\ lpc' = "exiting"
                 /\ UNCHANGED <<reqs, req, ws_closes>>
            [] f.kind = "TEXT" /\ ~IsToolRequest(f) /\ r.ctl = "raise" ->
                 /\ OnWsException
                 /\ UNCHANGED <<reqs, req>>
            [] f.kind = "ERROR" ->
                 /\ levents' = Append(levents, WsErrorEvent(n))
                 /\ suspended' = TRUE
                 /\ lpc' = "exiting"
                 /\ UNCHANGED <<reqs, req, ws_closes>>
            [] f.kind = "CLOSE" ->
                 /\ lpc' = "exiting"
                 /\ suspended' = FALSE
                 /\ UNCHANGED <<levents, reqs, req, ws_closes>>
            [] OTHER ->
                 /\ lpc' = "loop"
                 /\ suspended' = FALSE
                 /\ UNCHANGED <<levents, reqs, req, ws_closes>>
    /\ UNCHANGED <<entry, session, tool_closes, ws_opens, sent, result, calls>>
    /\ UNCHANGED remote
    /\ UNCHANGED objects

\* The tool_request has the keys _handle_tool_request reads.
IsWellFormed(d) == Has(d, "content") /\ Has(d, "tool_name") /\ Has(d, "payload")

\* Mutant of EndpointCall: the relay passes an empty payload.
EndpointCallRewritten(k, d, r) == Call(k, d["tool_name"], "{}", r)

\* result = await tool_server.execute_tool(tool_name, payload)
EndpointCall(k, d, r) == Call(k, d["tool_name"], d["payload"], r)

\* Mutant of OnDispatchError: the relay has no except clause, the exception
\* reaches run_workflow's handler.
OnDispatchErrorEscapes ==
    /\ result' = NoData
    /\ OnWsException

\* An exception inside _handle_tool_request's try: its except clause builds
\* the error response.
OnDispatchError ==
    /\ result' = RelayErrorContent
    /\ lpc' = "relay_error"
    /\ UNCHANGED <<levents, ws_closes, suspended>>

(* _handle_tool_request up to the result: read content, tool_name and      *)
(* payload (KeyError when one is missing), then execute_tool, which raises *)
(* when the tool server has no session and otherwise POSTs and turns every *)
(* outcome into a dict.                                                    *)
RelayDispatch(outcome) ==
    /\ lpc = "relay"
    /\ IF ~IsWellFormed(req)
       THEN /\ calls' = calls
            /\ OnDispatchError
       ELSE IF session = "none"
       THEN /\ calls' = Append(calls, EndpointCall(Len(reqs), req, NotStarted))
            /\ OnDispatchError
       ELSE /\ calls' = Append(calls, EndpointCall(Len(reqs), req, ExecuteTool(outcome)))
            /\ result' = ExecuteTool(outcome)
            /\ lpc' = "relay_send"
            /\ UNCHANGED <<levents, ws_closes, suspended>>
    /\ UNCHANGED <<entry, session, tool_closes, ws_opens, peer_closed, sent,
                   lread, reqs, req>>
    /\ UNCHANGED <<ack, ignored>>
    /\ UNCHANGED remote
    /\ UNCHANGED objects

\* Mutant of RelaySend: the relay also yields the result to the consumer.
RelaySendAnnounced(ok) ==
    /\ lpc = "relay_send"
    /\ sent' = Append(sent, WSToolResponseMessage(result, ok, Len(reqs)))
    /\ levents' = Append(levents, RunAssistantMessage("tool result", <<1, lread>>))
    /\ lpc' = IF ok THEN "loop" ELSE "relay_error"
    /\ req' = IF ok THEN NoData ELSE req
    /\ result' = IF ok THEN NoData ELSE RelayErrorContent
    /\ UNCHANGED <<entry, session, tool_closes, ws_opens, ws_closes,
                   peer_closed, lread, reqs, calls, suspended>>
    /\ UNCHANGED <<ack, ignored>>
    /\ UNCHANGED remote
    /\ UNCHANGED objects

\* await ws.send_str(response_msg.model_dump_json()); a failure goes to the
\* relay's except clause.
RelaySend(ok) ==
    /\ lpc = "relay_send"
    /\ sent' = Append(sent, WSToolResponseMessage(result, ok, Len(reqs)))
    /\ IF ok
       THEN /\ lpc' = "loop"
            /\ req' = NoData
            /\ result' = NoData
       ELSE /\ lpc' = "relay_error"
            /\ req' = req
            /\ result' = RelayErrorContent
    /\ UNCHANGED <<entry, levents, session, tool_closes, ws_opens, ws_closes,
                   peer_closed, lread, reqs, calls, suspended>>
    /\ UNCHANGED <<ack, ignored>>
    /\ UNCHANGED remote
    /\ UNCHANGED objects

\* Mutant of RelaySendError: a failed write of the error response is ignored
\* and the loop goes on.
RelaySendErrorSwallowed(ok) ==
    /\ lpc = "relay_error"
    /\ sent' = Append(sent, WSToolResponseMessage(result, ok, Len(reqs)))
    /\ req' = NoData
    /\ result' = NoData
    /\ lpc' = "loop"
    /\ UNCHANGED <<levents, ws_closes, suspended>>
    /\ UNCHANGED <<entry, session, tool_closes, ws_opens, peer_closed, lread,
                   reqs, calls>>
    /\ UNCHANGED <<ack, ignored>>
    /\ UNCHANGED remote
    /\ UNCHANGED objects

(* The relay's except clause: send the error response.  If that write      *)
(* fails too the exception leaves _handle_tool_request and reaches         *)
(* run_workflow's `except Exception`.                                      *)
RelaySendError(ok) ==
    /\ lpc = "relay_error"
    /\ sent' = Append(sent, WSToolResponseMessage(result, ok, Len(reqs)))
    /\ req' = NoData
    /\ result' = NoData
    /\ IF ok
       THEN /\ lpc' = "loop"
            /\ UNCHANGED <<levents, ws_closes, suspended>>
       ELSE OnWsException
    /\ UNCHANGED <<entry, session, tool_closes, ws_opens, peer_closed, lread,
                   reqs, calls>>
    /\ UNCHANGED <<ack, ignored>>
    /\ UNCHANGED remote
    /\ UNCHANGED objects

\* run_workflow ends: the `async with` blocks are left (after a break, the
\* end of the iteration, or the handler's yield).
InnerExit ==
    /\ lpc = "exiting"
    /\ ws_closes' = IF WsOpen THEN ws_closes + 1 ELSE ws_closes
    /\ suspended' = FALSE
    /\ lpc' = InnerEnd
    /\ UNCHANGED <<entry, levents, session, tool_closes, ws_opens, peer_closed,
                   sent, lread, reqs, req, result, calls>>
    /\ UNCHANGED <<ack, ignored>>
    /\ UNCHANGED remote
    /\ UNCHANGED objects

\* Mutant of CloseToolServer: the session is left as it is.
CloseToolServerSkipped ==
    /\ session' = session
    /\ tool_closes' = tool_closes

\* LocalToolServer.close(): close the session if there is one.
CloseToolServer ==
    /\ session' = "none"
    /\ tool_closes' = tool_closes + 1

\* connect_and_run_workflow's finally, reached by running to the end.
OuterFinally ==
    /\ lpc \in {"finally", "start_failed"}
    /\ CloseToolServer
    /\ suspended' = FALSE
    /\ lpc' = "done"
    /\ UNCHANGED <<entry, levents, ws_opens, ws_closes, peer_closed, sent, lread,
                   reqs, req, result, calls>>
    /\ UNCHANGED <<ack, ignored>>
    /\ UNCHANGED remote
    /\ UNCHANGED objects

\* The local generators are running or suspended, not finished.
LocalActive ==
    lpc \in {"start_tool", "connect", "configure", "await_ack", "start", "loop",
             "relay", "relay_send", "relay_error", "exiting", "start_failed"}

(* The consumer's task is cancelled while the generator awaits: the        *)
(* CancelledError (no Exception) unwinds run_workflow, leaving its `async  *)
(* with` blocks, and then connect_and_run_workflow, whose finally closes   *)
(* the tool server.  The same happens when run_workflow itself is the      *)
(* generator the consumer closes.                                          *)
LocalCancel ==
    /\ LocalActive
    /\ ws_closes' = IF WsOpen THEN ws_closes + 1 ELSE ws_closes
    /\ IF entry = "connect_and_run_workflow"
       THEN CloseToolServer
       ELSE UNCHANGED <<session, tool_closes>>
    /\ suspended' = FALSE
    /\ lpc' = "cancelled"
    /\ UNCHANGED <<entry, levents, ws_opens, peer_closed, sent, lread, reqs, req,
                   result, calls>>
    /\ UNCHANGED <<ack, ignored>>
    /\ UNCHANGED remote
    /\ UNCHANGED objects

(* The consumer closes connect_and_run_workflow while it is suspended at   *)
(* `yield message`: GeneratorExit runs its finally.  `async for` does not  *)
(* close the run_workflow generator it iterates, which stays suspended     *)
(* with its WebSocket until the event loop finalizes it.                   *)
LocalClose ==
    /\ entry = "connect_and_run_workflow"
    /\ LocalActive
    /\ suspended
    /\ CloseToolServer
    /\ suspended' = FALSE
    /\ lpc' = IF WsOpen THEN "orphaned" ELSE "cancelled"
    /\ UNCHANGED <<entry, levents, ws_opens, ws_closes, peer_closed, sent, lread,
                   reqs, req, result, calls>>
    /\ UNCHANGED <<ack, ignored>>
    /\ UNCHANGED remote
    /\ UNCHANGED objects

\* The event loop's asyncgen finalizer runs aclose() on the abandoned
\* run_workflow generator: GeneratorExit leaves its `async with` blocks.
Finalize ==
    /\ lpc = "orphaned"
    /\ ws_closes' = ws_closes + 1
    /\ lpc' = "cancelled"
    /\ UNCHANGED <<entry, levents, session, tool_closes, ws_opens, peer_closed,
                   sent, lread, reqs, req, result, calls, suspended>>
    /\ UNCHANGED <<ack, ignored>>
    /\ UNCHANGED remote
    /\ UNCHANGED objects

NextLocal ==
    \/ \E ok \in BOOLEAN : StartToolServer(ok)
    \/ \E ok \in BOOLEAN : WsConnect(ok)
    \/ \E ok \in BOOLEAN : WsSendConfigure(ok)
    \/ \E f \in WsFrames : WsReceiveAck(f)
    \/ \E ok \in BOOLEAN : WsSendStart(ok)
    \/ \E f \in WsFrames : WsReadFrame(f)
    \/ \E o \in EndpointOutcomes : RelayDispatch(o)
    \/ \E ok \in BOOLEAN : RelaySend(ok)
    \/ \E ok \in BOOLEAN : RelaySendError(ok)
    \/ InnerExit
    \/ OuterFinally
    \/ LocalCancel
    \/ LocalClose
    \/ Finalize

\* A local run, with a consumer that may stop consuming at any point.
SpecLocal == InitLocal /\ [][NextLocal]_vars

\* A run of either transport, with a consumer that may stop consuming.
SpecRun == (Init \/ InitLocal) /\ [][Next \/ RemoteCancel \/ NextLocal]_vars

\* ------------------------------------------------ constructing a client

InitClient ==
    /\ args \in [base_url : Urls, api_key : ApiKeys]
    /\ client = NoClient
    /\ max_retries = 0
    /\ attempt = 0
    /\ pc = "idle"
    /\ events = <<>>
    /\ connects = 0
    /\ opened = 0
    /\ rejected = <<0, 0>>
    /\ nread = 0
    /\ decoded = 0
    /\ total = 0
    /\ termAt = 0
    /\ delays = <<>>
    /\ closes = 0
    /\ LocalIdle
    /\ HostIdle

\* client = AutoComputerClient(base_url, api_key)
Construct ==
    /\ ~client.constructed
    /\ client' = AutoComputerClient(args.base_url, args.api_key)
    /\ args' = args
    /\ UNCHANGED <<remote, local, host>>

SpecClient == InitClient /\ [][Construct]_vars

\* ------------------------------------------------------- two sessions

(* client.run.astream(...) and client.local.connect_and_run_workflow(...)  *)
(* are both called on one AutoComputerClient, and their consumers run as   *)
(* two tasks of one event loop.                                            *)
InitPair ==
    /\ max_retries \in 0..PairSteps
    /\ attempt = 0
    /\ pc = "connect"
    /\ events = <<>>
    /\ connects = 0
    /\ opened = 0
    /\ rejected = <<0, 0>>
    /\ nread = 0
    /\ decoded = 0
    /\ total = 0
    /\ termAt = 0
    /\ delays = <<>>
    /\ closes = 0
    /\ entry = "connect_and_run_workflow"
    /\ lpc = "start_tool"
    /\ session = "none"
    /\ levents = <<>>
    /\ tool_closes = 0
    /\ ws_opens = 0
    /\ ws_closes = 0
    /\ peer_closed = FALSE
    /\ sent = <<>>
    /\ lread = 0
    /\ ack = "none"
    /\ ignored = 0
    /\ reqs = <<>>
    /\ req = NoData
    /\ result = NoData
    /\ calls = <<>>
    /\ suspended = FALSE
    /\ ClientReady
    /\ HostIdle

(* Mutant of RemoteStep: the sessions share one connection pool, and       *)
(* cancelling the remote session tears the local one down with it.         *)
RemoteStepShared ==
    \/ Next
    \/ /\ pc \in {"connect", "stream", "sleep_connect", "sleep_stream"}
       /\ pc' = "cancelled"
       /\ closes' = IF Opens > closes THEN closes + 1 ELSE closes
       /\ UNCHANGED <<max_retries, attempt, events, connects, opened, rejected,
                      nread, decoded, total, termAt, delays>>
       /\ lpc' = IF LocalActive THEN "cancelled" ELSE lpc
       /\ ws_closes' = IF WsOpen THEN ws_closes + 1 ELSE ws_closes
       /\ UNCHANGED <<entry, levents, session, tool_closes, ws_opens, peer_closed,
                      sent, lread, ack, ignored, reqs, req, result, calls, suspended>>
       /\ UNCHANGED objects

\* A step of the remote session: it works on its own httpx.AsyncClient and
\* its own copy of the headers.
RemoteStep == Next \/ RemoteCancel

\* The event loop runs one of the two tasks up to its next suspension.
NextPair ==
    /\ RemoteStep \/ NextLocal
    /\ attempt' + total' + lread' <= PairSteps

SpecPair == InitPair /\ [][NextPair]_vars


\* ------------------------------------------------------- the VM registry

\* The vm_name arguments explored (None: the argument was left out).
VmNames == {"vm-a", "vm-b"}

VmNameArgs == VmNames \cup {None}

\* The manager objects that are injected.
Managers == {"LocalVMManager"}

(* One call in `history`: the method, its argument, the exception it       *)
(* raised (None: it returned) and the value it returned.                   *)
Outcome(op, arg, raised, value) ==
    [op |-> op, arg |-> arg, raised |-> raised, value |-> value]

\* raise RuntimeError("VM manager not initialized...")
NotInitialized == "RuntimeError: VM manager not initialized"

\* raise ValueError("vm_name is required")
NameRequired == "ValueError: vm_name is required"

\* raise RuntimeError(f"Failed to start VM {vm_name}: ...")
StartVmFailed == "RuntimeError: Failed to start VM"

\* A dict as the sequence of its keys: d[k] = v, del d[k], d.keys().
DictSet(d, k) == IF \E i \in 1..Len(d) : d[i] = k THEN d ELSE Append(d, k)

DictDel(d, k) == SelectSeq(d, LAMBDA x : x # k)

Keys(d) == {d[i] : i \in 1..Len(d)}

(* What the injected manager and the VM do during start_vbox: start_vm     *)
(* returns and the tool server answers, start_vm raises, or the tool       *)
(* server does not answer within the timeout.                              *)
StartOutcomes == {"started", "start_vm_raises", "tool_server_timeout"}

\* What vm_manager.stop_vm does: return or raise.
StopOutcomes == {"stopped", "stop_vm_raises"}

\* What vm_manager.is_vm_running does: return True or False, or raise.
StatusOutcomes == {"running", "not_running", "is_vm_running_raises"}

(* The result of a method: the registry it leaves, the exception it        *)
(* raises (None: it returns) and the value it returns.                     *)
Result(reg, raised, value) == [reg |-> reg, raised |-> raised, value |-> value]

\* Mutant of StartVboxResult: the VM is stored as soon as start_vm returned,
\* before the wait for the tool server.
StartVboxResultStoredEarly(vm_name, wait_for_tool_server, o) ==
    IF vm_manager = None THEN Result(running_vms, NotInitialized, None)
    ELSE IF vm_name = None THEN Result(running_vms, NameRequired, None)
    ELSE IF o = "start_vm_raises" THEN Result(running_vms, StartVmFailed, None)
    ELSE IF wait_for_tool_server /\ o = "tool_server_timeout"
         THEN Result(DictSet(running_vms, vm_name), StartVmFailed, None)
    ELSE Result(DictSet(running_vms, vm_name), None, [name |-> vm_name])

(* start_vbox: the manager check, the vm_name check, then start_vm and the *)
(* wait inside the try; the VM is stored after both; any exception of the  *)
(* try is raised again as RuntimeError.                                    *)
StartVboxResult(vm_name, wait_for_tool_server, o) ==
    IF vm_manager = None THEN Result(running_vms, NotInitialized, None)
    ELSE IF vm_name = None THEN Result(running_vms, NameRequired, None)
    ELSE IF o = "start_vm_raises" \/ (wait_for_tool_server /\ o = "tool_server_timeout")
         THEN Result(running_vms, StartVmFailed, None)
    ELSE Result(DictSet(running_vms, vm_name), None, [name |-> vm_name])

\* Mutant of StopVboxResult: the VM is removed before stop_vm is called.
StopVboxResultRemovedFirst(vm_name, o) ==
    IF vm_manager = None THEN Result(running_vms, NotInitialized, None)
    ELSE IF vm_name = None THEN Result(running_vms, NameRequired, None)
    ELSE IF o = "stop_vm_raises" THEN Result(DictDel(running_vms, vm_name), None, FALSE)
    ELSE Result(DictDel(running_vms, vm_name), None, TRUE)

(* stop_vbox: the two checks, then stop_vm inside the try; the VM is       *)
(* removed after stop_vm returned; an exception of the try gives False.    *)
StopVboxResult(vm_name, o) ==
    IF vm_manager = None THEN Result(running_vms, NotInitialized, None)
    ELSE IF vm_name = None THEN Result(running_vms, NameRequired, None)
    ELSE IF o = "stop_vm_raises" THEN Result(running_vms, None, FALSE)
    ELSE Result(DictDel(running_vms, vm_name), None, TRUE)

\* Mutant of ListVmsResult: the keys are returned without the manager check.
ListVmsResultUnchecked == Result(running_vms, None, running_vms)

\* list_vms: the manager check, then list(self._running_vms.keys()).
ListVmsResult ==
    IF vm_manager = None THEN Result(running_vms, NotInitialized, None)
    ELSE Result(running_vms, None, running_vms)

(* get_status: the two checks, then a VMStatus; state is "unknown" when    *)
(* the manager raises.                                                     *)
GetStatusResult(vm_name, o) ==
    IF vm_manager = None THEN Result(running_vms, NotInitialized, None)
    ELSE IF vm_name = None THEN Result(running_vms, NameRequired, None)
    ELSE Result(running_vms, None,
                [name |-> vm_name,
                 state |-> CASE o = "running" -> "running"
                             [] o = "not_running" -> "stopped"
                             [] OTHER -> "unknown"])

\* A VMNamespace, with or without a manager given to the constructor.
InitVM ==
    /\ RemoteIdle
    /\ LocalIdle
    /\ ClientReady
    /\ vm_manager \in Managers \cup {None}
    /\ running_vms = <<>>
    /\ history = <<>>
    /\ vbox = [running |-> {}, tunnel_manager |-> FALSE]

\* A method of VMNamespace was called: its result is r.
Called(op, arg, r) ==
    /\ Len(history) < MaxCalls
    /\ running_vms' = r.reg
    /\ history' = Append(history, Outcome(op, arg, r.raised, r.value))
    /\ UNCHANGED <<remote, local, args, client, vbox>>

\* vm.set_vm_manager(m)
SetVmManager(m) ==
    /\ Len(history) < MaxCalls
    /\ vm_manager' = m
    /\ history' = Append(history, Outcome("set_vm_manager", m, None, None))
    /\ UNCHANGED <<running_vms, remote, local, args, client, vbox>>

\* await vm.start_vbox(vm_name, wait_for_tool_server=...)
StartVbox(vm_name, wait_for_tool_server, o) ==
    /\ Called("start_vbox", vm_name, StartVboxResult(vm_name, wait_for_tool_server, o))
    /\ UNCHANGED vm_manager

\* await vm.stop_vbox(vm_name)
StopVbox(vm_name, o) ==
    /\ Called("stop_vbox", vm_name, StopVboxResult(vm_name, o))
    /\ UNCHANGED vm_manager

\* await vm.list_vms()
ListVms ==
    /\ Called("list_vms", None, ListVmsResult)
    /\ UNCHANGED vm_manager

\* await vm.get_status(vm_name)
GetStatus(vm_name, o) ==
    /\ Called("get_status", vm_name, GetStatusResult(vm_name, o))
    /\ UNCHANGED vm_manager

NextVM ==
    \/ \E m \in Managers \cup {None} : SetVmManager(m)
    \/ \E n \in VmNameArgs, w \in BOOLEAN, o \in StartOutcomes : StartVbox(n, w, o)
    \/ \E n \in VmNameArgs, o \in StopOutcomes : StopVbox(n, o)
    \/ ListVms
    \/ \E n \in VmNameArgs, o \in StatusOutcomes : GetStatus(n, o)

\* Any sequence of calls on one VMNamespace.
SpecVM == InitVM /\ [][NextVM]_vars

\* ------------------------------------------------- the local tool server

(* What the GET of /tools in LocalToolServer.start can do: answer 200,     *)
(* answer another status, or fail.                                         *)
ProbeOutcomes == {"ok", "status", "unreachable"}

\* raise RuntimeError(f"Failed to connect to tool server: {e}")
ConnectToolServerFailed == "RuntimeError: Failed to connect to tool server"

\* A LocalToolServer as constructed: no session.
InitToolServer ==
    /\ RemoteIdle
    /\ LocalIdle
    /\ ClientReady
    /\ HostIdle

\* What a direct call on the tool server leaves alone.
ToolServerFrame ==
    /\ UNCHANGED <<entry, lpc, levents, ws_opens, ws_closes, peer_closed, sent,
                   lread, ack, ignored, reqs, req, result, calls, suspended>>
    /\ UNCHANGED <<remote, args, client, vm_manager, running_vms, vbox>>

\* Mutant of ToolServerStart: a failed start raises but keeps its session.
ToolServerStartKeepsSession(o) ==
    /\ Len(history) < MaxCalls
    /\ session' = "open"
    /\ tool_closes' = tool_closes
    /\ history' = Append(history,
                         Outcome("start", None,
                                 IF o = "ok" THEN None ELSE ConnectToolServerFailed,
                                 None))
    /\ ToolServerFrame

(* await tool_server.start(): a new ClientSession is stored, then /tools   *)
(* is fetched; a status other than 200 or an exception closes the session  *)
(* and raises RuntimeError.                                                *)
ToolServerStart(o) ==
    /\ Len(history) < MaxCalls
    /\ IF o = "ok"
       THEN /\ session' = "open"
            /\ tool_closes' = tool_closes
            /\ history' = Append(history, Outcome("start", None, None, None))
       ELSE /\ CloseToolServer
            /\ history' = Append(history,
                                 Outcome("start", None, ConnectToolServerFailed, None))
    /\ ToolServerFrame

\* await tool_server.execute_tool(tool_name, payload)
ToolServerExecute(o) ==
    /\ Len(history) < MaxCalls
    /\ history' = Append(history,
                         IF session = "none"
                         THEN Outcome("execute_tool", None, NotStarted.raised, None)
                         ELSE Outcome("execute_tool", None, None, ExecuteTool(o)))
    /\ UNCHANGED <<session, tool_closes>>
    /\ ToolServerFrame

\* await tool_server.close()
ToolServerClose ==
    /\ Len(history) < MaxCalls
    /\ CloseToolServer
    /\ history' = Append(history, Outcome("close", None, None, None))
    /\ ToolServerFrame

NextToolServer ==
    \/ \E o \in ProbeOutcomes : ToolServerStart(o)
    \/ \E o \in EndpointOutcomes : ToolServerExecute(o)
    \/ ToolServerClose

\* Any sequence of calls on one LocalToolServer.
SpecToolServer == InitToolServer /\ [][NextToolServer]_vars

\* ------------------------------------------------------ the VM manager

\* vboxmanage commands and tunnel calls, as they appear in a call's log.
ListRunning == <<"list", "runningvms">>

StartVmCommand(vm_name) == <<"startvm", vm_name>>

ControlVmCommand(vm_name) == <<"controlvm", vm_name>>

StopTunnel(vm_name) == <<"stop_tunnel", vm_name>>

CreateTunnel(vm_name) == <<"create_tunnel", vm_name>>

(* _is_vm_running: the name is in the output of `list runningvms`; False   *)
(* when the command fails.                                                 *)
IsVmRunning(vm_name, list_ok) == list_ok /\ vm_name \in vbox.running

(* What `startvm` can do for a VM that is not running: start it, fail, or  *)
(* return with the VM still not up after the wait; for a VM that is        *)
(* running it fails with VBOX_E_INVALID_OBJECT_STATE.                      *)
StartVmOutcomes == {"started", "failed", "not_up", "invalid_state"}

\* What `controlvm ... acpipowerbutton` can do: press the button, or fail.
ControlVmOutcomes == {"pressed", "failed"}

\* raise RuntimeError(...) from _execute_vbox_command or _start_vm
VboxFailed == "RuntimeError"

(* A call in `history` with what the hypervisor saw of it: whether the VM  *)
(* was running when the call began, and the commands issued, in order.     *)
VmCall(op, vm_name, raised, was_running, commands) ==
    Outcome(op, vm_name, raised, [was_running |-> was_running, commands |-> commands])

\* A LocalVMManager, with tunnelling enabled or not, and the VMs of the host.
InitManager ==
    /\ RemoteIdle
    /\ LocalIdle
    /\ ClientReady
    /\ vm_manager = None
    /\ running_vms = <<>>
    /\ history = <<>>
    /\ vbox \in [running : SUBSET VmNames, tunnel_manager : BOOLEAN]

\* What a call on the manager leaves alone.
ManagerFrame == UNCHANGED <<remote, local, args, client, vm_manager, running_vms>>

(* manager.start_vm(vm_name, config): _start_vm, then the tunnel and the   *)
(* RunningComputer.  _start_vm returns at once when the VM is reported     *)
(* running; otherwise it issues startvm, waits and checks again; a failure *)
(* that names VBOX_E_INVALID_OBJECT_STATE is taken as "already running".   *)
StartVm(vm_name, list_ok, o) ==
    /\ Len(history) < MaxCalls
    /\ o = "invalid_state" <=> vm_name \in vbox.running
    /\ LET was == vm_name \in vbox.running
           tunnel == IF vbox.tunnel_manager THEN <<CreateTunnel(vm_name)>> ELSE <<>>
       IN IF IsVmRunning(vm_name, list_ok)
          THEN /\ vbox' = vbox
               /\ history' = Append(history,
                      VmCall("start_vm", vm_name, None, was, <<ListRunning>> \o tunnel))
          ELSE CASE o = "started" ->
                      /\ vbox' = [vbox EXCEPT !.running = @ \cup {vm_name}]
                      /\ history' = Append(history,
                             VmCall("start_vm", vm_name, None, was,
                                    <<ListRunning, StartVmCommand(vm_name), ListRunning>>
                                    \o tunnel))
                 [] o = "invalid_state" ->
                      /\ vbox' = vbox
                      /\ history' = Append(history,
                             VmCall("start_vm", vm_name, None, was,
                                    <<ListRunning, StartVmCommand(vm_name)>> \o tunnel))
                 [] o = "not_up" ->
                      /\ vbox' = vbox
                      /\ history' = Append(history,
                             VmCall("start_vm", vm_name, VboxFailed, was,
                                    <<ListRunning, StartVmCommand(vm_name), ListRunning>>))
                 [] OTHER ->
                      /\ vbox' = vbox
                      /\ history' = Append(history,
                             VmCall("start_vm", vm_name, VboxFailed, was,
                                    <<ListRunning, StartVmCommand(vm_name)>>))
    /\ ManagerFrame

(* manager.stop_vm(vm_name): stop the tunnel if there is a tunnel manager, *)
(* then _stop_vm, which returns at once when the VM is not reported        *)
(* running and otherwise presses the ACPI power button and returns; the    *)
(* guest powers off later.                                                 *)
StopVm(vm_name, list_ok, o) ==
    /\ Len(history) < MaxCalls
    /\ LET was == vm_name \in vbox.running
           tunnel == IF vbox.tunnel_manager THEN <<StopTunnel(vm_name)>> ELSE <<>>
       IN IF ~IsVmRunning(vm_name, list_ok)
          THEN history' = Append(history,
                   VmCall("stop_vm", vm_name, None, was, tunnel \o <<ListRunning>>))
          ELSE history' = Append(history,
                   VmCall("stop_vm", vm_name,
                          IF o = "pressed" THEN None ELSE VboxFailed, was,
                          tunnel \o <<ListRunning, ControlVmCommand(vm_name)>>))
    /\ vbox' = vbox
    /\ ManagerFrame

\* The guest of a running VM powers off.
VmPowersOff(vm_name) ==
    /\ Len(history) < MaxCalls
    /\ vm_name \in vbox.running
    /\ vbox' = [vbox EXCEPT !.running = @ \ {vm_name}]
    /\ history' = Append(history,
                         VmCall("powered_off", vm_name, None, TRUE, <<>>))
    /\ ManagerFrame

NextManager ==
    \/ \E n \in VmNames, l \in BOOLEAN, o \in StartVmOutcomes : StartVm(n, l, o)
    \/ \E n \in VmNames, l \in BOOLEAN, o \in ControlVmOutcomes : StopVm(n, l, o)
    \/ \E n \in VmNames : VmPowersOff(n)

\* Any sequence of start_vm and stop_vm calls on one LocalVMManager.
SpecManager == InitManager /\ [][NextManager]_vars

\* ---------------------------------------------------- workflow inputs

\* Python values by their type: a str, an int, and None.
PyStr == [type |-> "str", v |-> "s"]

PyInt == [type |-> "int", v |-> "1"]

PyNone == [type |-> "NoneType", v |-> "None"]

PyValues == {PyStr, PyInt}

\* The input names workflows define, and one name none of them defines.
InputNames == {"a", "b"}

ProvidedNames == InputNames \cup {"x"}

\* InputType members explored.
InputTypes == {"string", "number"}

\* WorkflowInput: input_name, input_type, default_value (None by default).
WorkflowInputs ==
    [input_name : InputNames, input_type : InputTypes,
     default_value : PyValues \cup {PyNone}]

\* workflow.workflow_inputs: a list of WorkflowInput.
InputLists == UNION {[1..n -> WorkflowInputs] : n \in 0..MaxInputs}

\* provided_inputs: a dict from names to values.
ProvidedDicts == UNION {[S -> PyValues] : S \in SUBSET ProvidedNames}

\* The isinstance chain of the type check, for the types explored.
ValidType(expected_type, value) ==
    \/ expected_type = "string" /\ value.type = "str"
    \/ expected_type = "number" /\ value.type = "int"

\* defined_input_names
DefinedInputNames(defs) == {defs[i].input_name : i \in 1..Len(defs)}

\* final_inputs[input_name] = value
DictPut(d, k, v) == [n \in DOMAIN d \cup {k} |-> IF n = k THEN v ELSE d[n]]

\* Mutant of MultipleInputsNoneProvided: the check is not made.
MultipleInputsNoneProvidedIgnored(defs, provided) == FALSE

\* len(workflow_inputs_defs) > 1 and len(provided_inputs) == 0
MultipleInputsNoneProvided(defs, provided) ==
    Len(defs) > 1 /\ DOMAIN provided = {}

\* What the call comes to: the exception raised (None: it returned) and the
\* mapping returned.
Validated(raised, value) == [raised |-> raised, value |-> value]

(* The loop over the definitions from the i-th on: a provided value is     *)
(* type-checked and taken, else the default if it is not None, else        *)
(* ValueError.                                                             *)
RECURSIVE FillInputs(_, _, _, _)
FillInputs(defs, provided, i, final_inputs) ==
    IF i > Len(defs) THEN Validated(None, final_inputs)
    ELSE LET wf_input == defs[i]
             input_name == wf_input.input_name
         IN IF input_name \in DOMAIN provided
            THEN IF ValidType(wf_input.input_type, provided[input_name])
                 THEN FillInputs(defs, provided, i + 1,
                                 DictPut(final_inputs, input_name, provided[input_name]))
                 ELSE Validated("TypeError", final_inputs)
            ELSE IF wf_input.default_value # PyNone
                 THEN FillInputs(defs, provided, i + 1,
                                 DictPut(final_inputs, input_name, wf_input.default_value))
                 ELSE Validated("ValueError", final_inputs)

\* validate_user_inputs_for_workflow(workflow, provided_inputs)
ValidateUserInputs(defs, provided) ==
    IF MultipleInputsNoneProvided(defs, provided)
    THEN Validated("ValueError", None)
    ELSE IF Len(defs) = 0 /\ DOMAIN provided # {}
    THEN Validated("ValueError", None)
    ELSE IF \E provided_name \in DOMAIN provided :
               provided_name \notin DefinedInputNames(defs)
    THEN Validated("ValueError", None)
    ELSE FillInputs(defs, provided, 1, [n \in {} |-> PyNone])

\* A workflow's input definitions and the inputs a caller provides.
InitValidate ==
    /\ RemoteIdle
    /\ LocalIdle
    /\ client = NoClient
    /\ args \in [workflow_inputs : InputLists, provided_inputs : ProvidedDicts]
    /\ HostIdle

\* The call: history records what it raised or returned.
Validate ==
    /\ history = <<>>
    /\ LET r == ValidateUserInputs(args.workflow_inputs, args.provided_inputs)
       IN history' = <<Outcome("validate_user_inputs_for_workflow", None,
                               r.raised, r.value)>>
    /\ UNCHANGED <<remote, local, args, client, vm_manager, running_vms, vbox>>

SpecValidate == InitValidate /\ [][Validate]_vars

\* ----------------------------------------------------------------- claims

\* A terminal event: Completed, or an Error that is server-reported, an
\* unexpected failure or retry-budget exhaustion (not a retry or decode notice).
IsTerminalEvent(e) == e.cls \in {"completed", "server_error", "unexpected", "exhausted"}

EventsWhere(P(_)) == {i \in 1..Len(events) : P(events[i])}

IsRetryEvent(e) == e.cls = "retry"

IsFromLine(e) == e.line >= 1

LastEvent == events[Len(events)]

(* C1: when the stream is interrupted by a read error with retry budget    *)
(* left, the session yields one retry Error, sleeps, and then makes a      *)
(* fresh connection attempt instead of ending.                             *)
C1_InterruptionReconnects ==
    [][ /\ (StreamReadError /\ attempt < max_retries)
            => /\ events' = Append(events, InterruptedRetrying(attempt))
               /\ pc' = "sleep_stream"
        /\ (pc = "sleep_stream" /\ pc' # "sleep_stream")
            => /\ pc' = "connect"
               /\ attempt' = attempt + 1 ]_vars

(* C2: every run ends with a terminating event: when the generator has     *)
(* ended, the last event yielded is Completed or a terminal Error.         *)
C2_EndsWithTerminalEvent ==
    pc = "done" => (events # <<>> /\ IsTerminalEvent(LastEvent))

\* C3: at most one terminal event is yielded per session.
C3_AtMostOneTerminalEvent ==
    Cardinality(EventsWhere(IsTerminalEvent)) <= 1

(* C4: once a run_completed or server error frame has been received the    *)
(* session is terminal: that frame is the last one read.                   *)
C4_TerminalFrameEndsSession ==
    termAt # 0 => (pc = "done" /\ nread = termAt)

(* C5: reading valid frames never ends the stream before run_completed;    *)
(* reading run_completed yields Completed and ends the generator; so the   *)
(* events hold at most one Completed, it is the last event, and nothing    *)
(* happens after the generator has ended.                                  *)
C5_CompletedOnceAndLast ==
    /\ [](LET idx == EventsWhere(LAMBDA e : e.type = "run_completed")
          IN /\ Cardinality(idx) <= 1
             /\ \A i \in idx : i = Len(events) /\ pc = "done")
    /\ [][ \A l \in WireLines :
             (ReadLine(l) /\ IsDecodable(l))
               => IF Get(l.data, "type") = "run_completed"
                  THEN /\ events' = Append(events, RunCompletedMessage(<<connects, nread + 1>>))
                       /\ pc' = "done"
                  ELSE /\ pc' = "stream"
                       /\ Len(events') = Len(events) + 1
                       /\ events'[Len(events')].type = l.data["type"] ]_vars
    /\ [][pc # "done"]_vars

C5_Witness ==
    /\ pc = "done"
    /\ Len(events) = 3
    /\ LastEvent.type = "run_completed"
    /\ events[1].type = "run_started"
    /\ events[2].type = "sequence_status"

(* C6: in the first connection that succeeds, after k failed connects in a *)
(* row (k <= max_retries), the events are exactly k retry Errors followed  *)
(* by the events of that connection's lines, in line order, one per        *)
(* decodable frame and at most one per line.                               *)
C6_RetriesThenEvents ==
    (opened = 1 /\ pc = "stream") =>
        LET k == connects - 1
            tail == SubSeq(events, k + 1, Len(events))
        IN /\ k <= max_retries
           /\ attempt = k
           /\ Len(events) >= k
           /\ \A i \in 1..k : events[i] = ConnectRetrying(i - 1)
           /\ \A i \in 1..Len(tail) :
                /\ ~IsRetryEvent(tail[i])
                /\ tail[i].conn = connects
                /\ tail[i].line \in 1..nread
           /\ \A i, j \in 1..Len(tail) : i < j => tail[i].line < tail[j].line
           /\ Cardinality({i \in 1..Len(tail) :
                  tail[i].cls \in {"progress", "server_error", "completed"}}) = decoded

C6_Witness ==
    /\ opened = 1
    /\ pc = "stream"
    /\ connects = 3
    /\ decoded >= 2

(* C7: when every connection attempt fails, the generator ends after       *)
(* exactly max_retries + 1 attempts, having yielded max_retries retry      *)
(* Errors and then the exhaustion Error, which stays the last event.       *)
C7_ExhaustionAfterAllAttempts ==
    (opened = 0 /\ rejected = <<0, 0>>) =>
        /\ connects <= max_retries + 1
        /\ (pc = "done" \/ \E i \in 1..Len(events) : events[i].cls = "exhausted")
             => /\ pc = "done"
                /\ connects = max_retries + 1
                /\ events = [i \in 1..(max_retries + 1) |->
                               IF i <= max_retries THEN ConnectRetrying(i - 1)
                                                   ELSE ConnectExhausted]

C7_Witness ==
    /\ opened = 0
    /\ rejected = <<0, 0>>
    /\ pc = "done"
    /\ max_retries = 2

(* C8: the retry budget bounds the session: at most max_retries + 1        *)
(* connection attempts and at most max_retries retry Errors, whatever the  *)
(* mix of connect failures and stream failures.                            *)
C8_RetryBudgetBounds ==
    /\ attempt <= max_retries
    /\ connects <= max_retries + 1
    /\ Cardinality(EventsWhere(IsRetryEvent)) <= max_retries

C8_Witness ==
    /\ max_retries = 2
    /\ connects = 3
    /\ opened = 2
    /\ Cardinality(EventsWhere(IsRetryEvent)) = 2
    /\ \E i \in 1..Len(events) : IsFromLine(events[i])

(* C9: a 4xx/5xx answer is never retried: the session yields exactly one   *)
(* Error for it and ends, with no further connection attempt, also when    *)
(* retry budget remains.                                                   *)
C9_RejectionIsFatal ==
    rejected[1] # 0 =>
        /\ pc = "done"
        /\ connects = rejected[1]
        /\ Len(events) = rejected[2] + 1
        /\ LastEvent = UnexpectedError(NoLine)

C9_Witness ==
    /\ rejected[1] # 0
    /\ attempt < max_retries
    /\ pc = "done"

(* C10: no event is yielded twice for one wire line: the events that come  *)
(* from lines have strictly increasing (connection, line) origins, and a   *)
(* step only appends at most one event, which comes from the line just     *)
(* read if it comes from a line.                                           *)
C10_NoEventTwice ==
    /\ [](\A i, j \in 1..Len(events) :
            (i < j /\ IsFromLine(events[i]) /\ IsFromLine(events[j]))
              => \/ events[i].conn < events[j].conn
                 \/ /\ events[i].conn = events[j].conn
                    /\ events[i].line < events[j].line)
    /\ [][ \/ events' = events
           \/ /\ Len(events') = Len(events) + 1
              /\ SubSeq(events', 1, Len(events)) = events
              /\ LET e == events'[Len(events')]
                 IN IsFromLine(e) => /\ e.conn = connects
                                     /\ e.line = nread + 1
                                     /\ nread' = nread + 1 ]_vars

C10_Witness ==
    \E i, j \in 1..Len(events) :
        /\ i < j
        /\ IsFromLine(events[i])
        /\ IsFromLine(events[j])
        /\ events[i].conn < events[j].conn

\* The message types astream's line loop has a branch for.
KnownTypes ==
    {"run_started", "sequence_started", "sequence_status", "assistant", "error",
     "run_completed"}

\* The line is a JSON object of a known type that lacks a required field.
LacksRequiredField(l) ==
    l.text = "object" /\ Get(l.data, "type") \in KnownTypes /\ ~IsDecodable(l)

(* C11: a frame that fails to decode is not fatal: reading a line that is  *)
(* not valid JSON, or a JSON object of a known type lacking a required     *)
(* field, yields exactly one informational decode Error for that line and  *)
(* the session goes on reading.                                            *)
C11_DecodeFailureNonFatal ==
    [][ \A l \in WireLines :
          (ReadLine(l) /\ (l.text = "invalid" \/ LacksRequiredField(l)))
            => /\ events' = Append(events, DecodeError(<<connects, nread + 1>>))
               /\ pc' = "stream" ]_vars

\* The line is a JSON object whose type is absent or has no branch.
IsUnknownLine(l) == l.text = "object" /\ Get(l.data, "type") \notin KnownTypes

(* C12: a well-formed JSON object frame whose type is unrecognised or      *)
(* absent yields no event and does not end the stream, in both transports: *)
(* reading it changes nothing but the count of frames read, so the events  *)
(* of the other frames are what they would be without it.                  *)
C12_UnknownTypeIgnored ==
    [][ /\ \A l \in WireLines :
              (ReadLine(l) /\ IsUnknownLine(l))
                => /\ pc' = "stream"
                   /\ UNCHANGED <<max_retries, attempt, events, connects, opened,
                                  rejected, decoded, termAt, delays, closes>>
        /\ \A f \in WsFrames :
              (WsReadFrame(f) /\ IsUnknownFrame(f))
                => /\ lpc' = "loop"
                   /\ UNCHANGED <<entry, levents, session, tool_closes, ws_opens,
                                  ws_closes, peer_closed, sent, ack, reqs, req,
                                  result, calls>> ]_vars

\* A local run ignored a frame of unknown type and yielded an event for the
\* frame after it.
C12_Witness ==
    /\ ignored = 1
    /\ lread = 2
    /\ levents # <<>>
    /\ levents[Len(levents)].line = 2
    /\ levents[Len(levents)].type = "assistant"

(* C13: the local handshake is strict: when the message received in reply  *)
(* to configure is anything but a configure_ack, start_workflow is not     *)
(* written and no Started event is yielded.                                *)
C13_StrictHandshake ==
    (ack \notin {"none", "configure_ack"})
        => /\ \A i \in 1..Len(sent) : ~(sent[i].type = "start_workflow" /\ sent[i].ok)
           /\ \A i \in 1..Len(levents) : levents[i].type # "run_started"

\* The local run is inside _handle_tool_request.
RelayStates == {"relay", "relay_send", "relay_error"}

\* The step writes one tool_response on the channel and nothing else.
WritesToolResponse ==
    /\ Len(sent') = Len(sent) + 1
    /\ SubSeq(sent', 1, Len(sent)) = sent
    /\ sent'[Len(sent')].type = "tool_response"

(* C14: the tool relay never emits an event: reading a tool_request and    *)
(* every step of the relay that ends inside the relay leave the events     *)
(* yielded to the caller unchanged, and what the relay writes on the       *)
(* channel is a tool_response.                                             *)
C14_RelayEmitsNoEvent ==
    [][ /\ (\E f \in WsFrames : IsToolRequest(f) /\ WsReadFrame(f))
            => (levents' = levents /\ sent' = sent)
        /\ (lpc \in RelayStates /\ lpc' \in RelayStates \cup {"loop"})
            => /\ levents' = levents
               /\ (sent' = sent \/ WritesToolResponse) ]_vars

\* A whole exchange is over: the response was written and the loop is back
\* at the channel with only the Started event yielded.
C14_Witness ==
    /\ lpc = "loop"
    /\ Len(reqs) = 1
    /\ Len(sent) = 3
    /\ sent[3].type = "tool_response"
    /\ sent[3].ok
    /\ Len(levents) = 1

\* The execute_tool calls made for the k-th tool request.
CallsFor(k) == {i \in 1..Len(calls) : calls[i].for = k}

\* The tool_response writes attempted for the k-th tool request.
ResponsesFor(k) ==
    {j \in 1..Len(sent) : sent[j].type = "tool_response" /\ sent[j].for = k}

FirstResponse(k) ==
    CHOOSE j \in ResponsesFor(k) : \A j2 \in ResponsesFor(k) : j <= j2

\* execute_tool returned the endpoint's 200 answer.
ReturnedSuccess(r) == ~Has(r, "error") /\ ~Has(r, "raised")

(* C15: the tool relay is a pure pass-through: for every tool_request with *)
(* tool_name and payload, execute_tool is called exactly once, with that   *)
(* tool_name and that payload; when it returns the endpoint's result R,    *)
(* the response the relay writes has content R, and once that write has    *)
(* succeeded it is the only response to the request.                       *)
C15_RelayPassThrough ==
    \A k \in 1..Len(reqs) :
        IsWellFormed(reqs[k]) =>
            /\ Cardinality(CallsFor(k)) <= 1
            /\ (k < Len(reqs) \/ lpc \in {"relay_send", "relay_error", "loop"})
                    => Cardinality(CallsFor(k)) = 1
            /\ \A i \in CallsFor(k) :
                    /\ calls[i].tool_name = reqs[k]["tool_name"]
                    /\ calls[i].payload = reqs[k]["payload"]
                    /\ (ReturnedSuccess(calls[i].result) /\ ResponsesFor(k) # {})
                        => /\ sent[FirstResponse(k)].content = calls[i].result
                           /\ sent[FirstResponse(k)].ok
                                => ResponsesFor(k) = {FirstResponse(k)}

\* The request type/"hello" was relayed: one call with those arguments, and
\* the endpoint's answer written back as the one response.
C15_Witness ==
    /\ lpc = "loop"
    /\ reqs = <<TypeRequest>>
    /\ calls = <<Call(1, "type", "hello", ExecuteTool("ok_image"))>>
    /\ ResponsesFor(1) = {3}
    /\ sent[3].ok
    /\ sent[3].content = ExecuteTool("ok_image")

\* The dispatch of the request in flight fails: a key is missing, the tool
\* server has no session, or the POST fails or is answered with another status.
DispatchFails(o) == ~IsWellFormed(req) \/ session = "none" \/ ~IsSuccess(o)

(* C16: a tool dispatch failure is contained in the relay: when the        *)
(* request lacks tool_name or payload, or the endpoint is not started,     *)
(* unreachable or answers with a non-200 status, the relay yields nothing  *)
(* and writes a tool_response whose content has an `error` entry; once     *)
(* that is written the event loop is back at the channel for the next      *)
(* frame with no Error event yielded.                                      *)
C16_DispatchFailureContained ==
    [][ /\ \A o \in EndpointOutcomes :
              (RelayDispatch(o) /\ DispatchFails(o))
                => /\ Has(result', "error")
                   /\ levents' = levents
                   /\ lpc' \in {"relay_send", "relay_error"}
        /\ (lpc \in {"relay_send", "relay_error"} /\ Has(result, "error")
                /\ sent' # sent)
            => /\ WritesToolResponse
               /\ Has(sent'[Len(sent')].content, "error")
               /\ sent'[Len(sent')].for = Len(reqs)
               /\ sent'[Len(sent')].ok
                    => (levents' = levents /\ lpc' = "loop" /\ CanRead') ]_vars

\* A request without tool_name was answered with an error response, and the
\* loop then read the next frame and yielded its event; no Error was yielded.
C16_Witness ==
    /\ Len(reqs) = 1
    /\ ~Has(reqs[1], "tool_name")
    /\ calls = <<>>
    /\ Len(sent) = 3
    /\ sent[3].ok
    /\ Has(sent[3].content, "error")
    /\ lread = 2
    /\ Len(levents) = 2
    /\ levents[2].type = "assistant"
    /\ levents[2].line = 2

\* The successful tool_response writes for the k-th tool request.
WrittenFor(k) == {j \in ResponsesFor(k) : sent[j].ok}

(* C17: at most one tool request is in flight: while a tool_request is     *)
(* being relayed no frame is read and no event is yielded (unless the      *)
(* relay fails to write any response, which ends the run); every           *)
(* tool_response answers the request read last, which has no response      *)
(* yet, and the next tool_request is read only when every earlier one has  *)
(* exactly one response written.                                           *)
C17_OneRequestInFlight ==
    [][ /\ lpc \in RelayStates
            => /\ lread' = lread
               /\ reqs' = reqs
               /\ \/ levents' = levents
                  \/ /\ lpc = "relay_error"
                     /\ lpc' = "exiting"
                     /\ levents' = Append(levents, WsFailed)
        /\ lread' # lread
            => \A k \in 1..Len(reqs) : Cardinality(WrittenFor(k)) = 1
        /\ (sent' # sent /\ sent'[Len(sent')].type = "tool_response")
            => /\ sent'[Len(sent')].for = Len(reqs)
               /\ WrittenFor(Len(reqs)) = {} ]_vars

\* Two tool requests were read and answered, one after the other.
C17_Witness ==
    /\ lpc = "loop"
    /\ reqs = <<ToolRequest, TypeRequest>>
    /\ Len(sent) = 4
    /\ sent[3].for = 1
    /\ sent[3].ok
    /\ sent[4].for = 2
    /\ sent[4].ok
    /\ Len(levents) = 1

C19_ToolSessionReleased ==
    (entry = "connect_and_run_workflow" /\ lpc \in {"done", "cancelled", "orphaned"})
        => (session = "none" /\ tool_closes >= 1)

\* A local run that completed normally and ran its finally.
C19_Witness ==
    /\ entry = "connect_and_run_workflow"
    /\ lpc = "done"
    /\ levents # <<>>
    /\ levents[Len(levents)].cls = "completed"
    /\ session = "none"
    /\ tool_closes = 1

\* The line or frame is a sequence_status with its required fields.
IsStatus(l) ==
    /\ l.text = "object"
    /\ Get(l.data, "type") = "sequence_status"
    /\ Has(l.data, "sequence_id")
    /\ Has(l.data, "success")

\* A sequence_started event for sequence x is among the events evs.
StartedIn(evs, x) ==
    \E i \in 1..Len(evs) :
        evs[i].type = "sequence_started" /\ evs[i].sequence_id = x

\* The SequenceStatus event of a status line or frame read at origin n.
StatusOf(l, n) ==
    RunSequenceStatusMessage(l.data["sequence_id"], l.data["success"],
                             Get(l.data, "error"), n)

(* C20: sequence events are not validated against each other: in both      *)
(* transports a sequence_status frame for a sequence X no sequence_started *)
(* event was yielded for still yields the SequenceStatus event for X with  *)
(* the frame's success and error values, and the stream continues.         *)
C20_StatusWithoutStarted ==
    [][ /\ \A l \in WireLines :
              (ReadLine(l) /\ IsStatus(l) /\ ~StartedIn(events, l.data["sequence_id"]))
                => /\ events' = Append(events, StatusOf(l, <<connects, nread + 1>>))
                   /\ pc' = "stream"
        /\ \A f \in WsFrames :
              (WsReadFrame(f) /\ f.kind = "TEXT" /\ IsStatus(f)
                 /\ ~StartedIn(levents, f.data["sequence_id"]))
                => /\ levents' = Append(levents, StatusOf(f, <<1, lread + 1>>))
                   /\ lpc' = "loop" ]_vars

\* A remote session yielded the failed status of s1 with no sequence_started
\* before it, and then the event of the next line.
C20_Witness ==
    /\ Len(events) = 2
    /\ events[1].type = "sequence_status"
    /\ events[1].sequence_id = "s1"
    /\ events[1].success = "false"
    /\ events[1].error = "step failed"
    /\ events[2].type = "assistant"
    /\ events[2].line = 2

\* The event was decoded from a frame (it is no retry, exhaustion, decode or
\* failure notice made up by the client).
NonSynthetic(e) == e.cls \in {"progress", "completed", "server_error"}

\* The message is a TEXT frame the event loop of run_workflow decodes into an
\* event: a type with a yielding branch, with the fields that branch reads.
WsDecodable(f) ==
    /\ f.kind = "TEXT"
    /\ f.text = "object"
    /\ LET d == f.data
           t == Get(d, "type")
       IN \/ t = "workflow_completed"
          \/ t = "sequence_status" /\ Has(d, "sequence_id") /\ Has(d, "success")
          \/ t = "assistant" /\ Has(d, "content")
          \/ t = "error" /\ Has(d, "content")

\* The type of the event a decodable WebSocket frame is yielded as.
WsEventType(f) ==
    IF Get(f.data, "type") = "workflow_completed" THEN "run_completed"
    ELSE Get(f.data, "type")

\* evs2 is evs with one event appended, decoded from the frame read at
\* position k of connection c and of type t.
YieldsFrame(evs, evs2, t, c, k) ==
    /\ Len(evs2) = Len(evs) + 1
    /\ SubSeq(evs2, 1, Len(evs)) = evs
    /\ NonSynthetic(evs2[Len(evs2)])
    /\ evs2[Len(evs2)].type = t
    /\ evs2[Len(evs2)].conn = c
    /\ evs2[Len(evs2)].line = k

\* evs2 is evs, or evs with one client-made notice appended.
YieldsNoFrame(evs, evs2) ==
    \/ evs2 = evs
    \/ /\ Len(evs2) = Len(evs) + 1
       /\ SubSeq(evs2, 1, Len(evs)) = evs
       /\ ~NonSynthetic(evs2[Len(evs2)])

(* C21: decoded events are yielded in arrival order: in both loops every   *)
(* decodable frame read appends exactly its own event to the events        *)
(* yielded so far (none dropped, none reordered), a frame that is not      *)
(* decodable appends no decoded event, and a tool_request appends nothing. *)
C21_ArrivalOrder ==
    [][ /\ \A l \in WireLines :
              ReadLine(l)
                => IF IsDecodable(l)
                   THEN YieldsFrame(events, events', l.data["type"], connects, nread + 1)
                   ELSE YieldsNoFrame(events, events')
        /\ \A f \in WsFrames :
              WsReadFrame(f)
                => IF WsDecodable(f)
                   THEN YieldsFrame(levents, levents', WsEventType(f), 1, lread + 1)
                   ELSE IF IsToolRequest(f) THEN levents' = levents
                   ELSE YieldsNoFrame(levents, levents') ]_vars

\* A remote session yielded the events of three decodable lines in the order
\* the lines arrived.
C21_Witness ==
    /\ Len(events) = 3
    /\ \A i \in 1..3 : events[i].conn = 1 /\ events[i].line = i
    /\ events[1].type = "run_started"
    /\ events[2].type = "sequence_status"
    /\ events[3].type = "run_completed"

(* C22: both transports produce the same decoded event vocabulary: for a   *)
(* frame of the wire shape, the WebSocket event loop yields what the HTTP   *)
(* line loop yields for that frame, and goes on reading exactly when the   *)
(* line loop does.                                                         *)
C22_SameVocabulary ==
    [][ \A l \in WireLines :
          (IsDecodable(l) /\ WsText(l) \in WsFrames /\ WsReadFrame(WsText(l)))
            => /\ levents' = levents \o HandleLine(l, <<1, lread + 1>>).yield
               /\ (lpc' = "loop") <=> (HandleLine(l, <<1, lread + 1>>).ctl = "continue")
      ]_vars

Sleeping == pc \in {"sleep_connect", "sleep_stream"}

(* C24: backoff is linear and ordered: when attempt k (k = attempt + 1)    *)
(* fails with retry budget left, the session yields the retry Error for k  *)
(* and then waits retry_delay * k; when the wait is over it starts attempt *)
(* k + 1, yielding nothing in between; and a connection attempt starts     *)
(* only when every earlier attempt's wait has been slept.                  *)
C24_LinearOrderedBackoff ==
    [][ /\ (~Sleeping /\ Sleeping')
            => /\ Len(events') = Len(events) + 1
               /\ SubSeq(events', 1, Len(events)) = events
               /\ events'[Len(events')].cls = "retry"
               /\ events'[Len(events')].attempt = attempt + 1
               /\ delays' = Append(delays, RetryDelay * (attempt + 1))
        /\ (Sleeping /\ ~Sleeping')
            => /\ pc' = "connect"
               /\ attempt' = attempt + 1
               /\ events' = events
        /\ connects' # connects
            => (pc = "connect" /\ Len(delays) = attempt) ]_vars

NoTrailingSlash(s) == s = <<>> \/ s[Len(s)] # "/"

(* C26: constructing AutoComputerClient(base_url, api_key) with a base_url  *)
(* that has no trailing slash stores base_url and api_key unchanged, sets  *)
(* headers to exactly X-API-Key: api_key and Content-Type:                 *)
(* application/json, and creates the workflows and run namespaces, which   *)
(* carry the same base_url and headers.                                    *)
C26_ClientConstruction ==
    (client.constructed /\ NoTrailingSlash(args.base_url))
        => /\ client.base_url = args.base_url
           /\ client.api_key = args.api_key
           /\ DOMAIN client.headers = {"X-API-Key", "Content-Type"}
           /\ client.headers["X-API-Key"] = args.api_key
           /\ client.headers["Content-Type"] = "application/json"
           /\ \A ns \in {"workflows", "run"} :
                  /\ Has(client, ns)
                  /\ client[ns].base_url = args.base_url
                  /\ client[ns].headers = client.headers

\* A client constructed from a base_url that starts with a slash and does
\* not end with one.
C26_Witness ==
    /\ client.constructed
    /\ args.base_url = <<"/", "h", ":">>
    /\ args.api_key = "key-2"
    /\ client.run.base_url = <<"/", "h", ":">>

\* The successful tool_response writes of the run.
Written == {j \in 1..Len(sent) : sent[j].type = "tool_response" /\ sent[j].ok}

(* C27: the config snapshot is sent once and first: the messages the       *)
(* client writes on a local run are one configure, then at most one        *)
(* start_workflow, then tool_responses only; once the configure step is    *)
(* passed there is exactly one configure; and the tool_responses written   *)
(* are never more than the tool_request frames read.                       *)
C27_ConfigureOnceAndFirst ==
    /\ \A i \in 1..Len(sent) :
           sent[i].type = (IF i = 1 THEN "configure"
                           ELSE IF i = 2 THEN "start_workflow"
                           ELSE "tool_response")
    /\ lpc \in {"await_ack", "start", "loop"} \cup RelayStates
          => Cardinality({i \in 1..Len(sent) : sent[i].type = "configure"}) = 1
    /\ Cardinality(Written) <= Len(reqs)

\* A run that wrote configure, start_workflow and the responses to two tool
\* requests.
C27_Witness ==
    /\ Len(sent) = 4
    /\ \A i \in 1..4 : sent[i].ok
    /\ Len(reqs) = 2
    /\ Written = {3, 4}

\* The step is one of the failures of run_workflow outside the tool relay:
\* the connect, a handshake write or reply, or an ERROR message in the loop.
WsFailureStep ==
    \/ WsConnect(FALSE)
    \/ WsSendConfigure(FALSE)
    \/ \E f \in WsFrames : WsReceiveAck(f) /\ AckOf(f) = "TEXT"
    \/ WsSendStart(FALSE)
    \/ WsReadFrame(WsOther("ERROR"))

\* run_workflow is over or about to leave its `async with` blocks.
WsEnding == {"exiting", "finally", "done", "cancelled", "orphaned"}

(* C28: local execution never retries: a failed WebSocket connect, a       *)
(* handshake failure, a send failure or a WebSocket ERROR message yields   *)
(* exactly one Error event and ends the run, after which nothing more is   *)
(* yielded; the run is never back at connecting, so one connection attempt *)
(* is made per call.                                                       *)
C28_LocalNeverRetries ==
    [][ /\ WsFailureStep
            => /\ Len(levents') = Len(levents) + 1
               /\ SubSeq(levents', 1, Len(levents)) = levents
               /\ levents'[Len(levents')].type = "error"
               /\ lpc' = "exiting"
        /\ lpc \in WsEnding => (levents' = levents /\ lpc' \in WsEnding)
        /\ lpc' = "connect" => lpc \in {"start_tool", "connect"}
        /\ lpc = "connect" => lpc' # "connect"
        /\ ws_opens' <= 1 ]_vars

\* The connect failed: the run ended with the Error as its only event and no
\* WebSocket was ever opened.
C28_Witness ==
    /\ entry = "run_workflow"
    /\ lpc = "done"
    /\ levents = <<WsFailed>>
    /\ ws_opens = 0
    /\ sent = <<>>

\* Positions of the Started event among the events of the local run.
StartedAt == {i \in 1..Len(levents) : levents[i].type = "run_started"}

\* start_workflow was written to the WebSocket.
StartWritten ==
    \E j \in 1..Len(sent) : sent[j].type = "start_workflow" /\ sent[j].ok

(* C29: in local execution Started is yielded at most once, by            *)
(* run_workflow itself: it is there exactly when start_workflow has been   *)
(* written, it is the first event of the run and it is there before any    *)
(* message of the event loop is read; when the connect or the handshake    *)
(* fails Started is never yielded and the only event is the Error.         *)
C29_StartedSyntheticUnique ==
    /\ StartedAt \subseteq {1}
    /\ StartedAt # {} <=> StartWritten
    /\ lread > 0 => StartedAt = {1}
    /\ lpc \in {"loop"} \cup RelayStates => StartedAt = {1}
    /\ StartedAt = {}
         => /\ Len(levents) <= 1
            /\ \A i \in 1..Len(levents) : levents[i].type = "error"
            /\ lread = 0

\* The server sent its own run_started and then run_completed: the run ended
\* with the one Started of run_workflow followed by Completed.
C29_Witness ==
    /\ lpc = "done"
    /\ lread = 2
    /\ ignored = 1
    /\ Len(levents) = 2
    /\ levents[1] = RunStartedMessage(NoLine)
    /\ levents[2].type = "run_completed"

\* The send_str calls of the relay for tool request k, and those that
\* returned.
AttemptsFor(k) ==
    {j \in 1..Len(sent) : sent[j].type = "tool_response" /\ sent[j].for = k}

WrittenOnceFor(k) == Cardinality({j \in AttemptsFor(k) : sent[j].ok}) = 1

\* The Error events run_workflow's except clause has yielded.
FailedAt == {i \in 1..Len(levents) : levents[i] = WsFailed}

\* The relay is not at work: the loop is waiting or the run is ending.
RelayAtRest == lpc \in {"loop", "exiting", "finally", "done"}

\* Every tool request read so far has its response written, or it is the
\* last one, every write for it failed, the error response last, and the run
\* ends with its one Error.
ToolRequestsSettled ==
    /\ \A k \in 1..Len(reqs) :
          /\ Cardinality(AttemptsFor(k)) <= 2
          /\ Cardinality({j \in AttemptsFor(k) : sent[j].ok}) <= 1
    /\ RelayAtRest
         => \A k \in 1..Len(reqs) :
              \/ WrittenOnceFor(k)
              \/ /\ k = Len(reqs)
                 /\ AttemptsFor(k) # {}
                 /\ \A j \in AttemptsFor(k) : ~sent[j].ok
                 /\ sent[Len(sent)].content = RelayErrorContent
                 /\ lpc # "loop"
                 /\ FailedAt = {Len(levents)}

(* C30: if the write of the tool_response fails, the relay attempts one    *)
(* error tool_response; if that write fails too, run_workflow yields one   *)
(* terminal Error and ends; so every tool_request gets exactly one written *)
(* tool_response or the run ends with the Error.                           *)
C30_WriteFailureNoticed ==
    [][ /\ RelaySend(FALSE)
            => /\ lpc' = "relay_error"
               /\ result' = RelayErrorContent
               /\ levents' = levents
        /\ RelaySendError(TRUE)
            => /\ sent'[Len(sent')].content = RelayErrorContent
               /\ lpc' = "loop"
               /\ levents' = levents
        /\ RelaySendError(FALSE)
            => /\ levents' = Append(levents, WsFailed)
               /\ lpc' = "exiting"
        /\ ToolRequestsSettled' ]_vars

\* Both writes for the one tool request failed: the run ended with Started
\* followed by the Error.
C30_Witness ==
    /\ lpc = "done"
    /\ Len(reqs) = 1
    /\ Len(sent) = 4
    /\ ~sent[3].ok /\ sent[3].type = "tool_response"
    /\ ~sent[4].ok /\ sent[4].content = RelayErrorContent
    /\ levents = <<RunStartedMessage(NoLine), WsFailed>>

\* The call returned a VMInstance / returned True.
StartReturned(h) == h.op = "start_vbox" /\ h.raised = None

StopReturnedTrue(h) == h.op = "stop_vbox" /\ h.raised = None /\ h.value

(* The names whose most recent successful call among the first k calls was *)
(* a start_vbox: one returned a VMInstance and no later stop_vbox of the   *)
(* name returned True.                                                     *)
RegisteredAfter(k) ==
    {n \in VmNames :
        \E i \in 1..k :
            /\ StartReturned(history[i]) /\ history[i].arg = n
            /\ \A j \in (i + 1)..k :
                  ~(StopReturnedTrue(history[j]) /\ history[j].arg = n)}

LastCall == history[Len(history)]

(* C32: when the manager raises while stopping, stop_vbox returns False,   *)
(* raises nothing and leaves the registry as it was; it returns True only  *)
(* if stop_vm returned normally, and then the name is not in the registry. *)
C32_StopFailureIsValue ==
    [][ \A n \in VmNames, o \in StopOutcomes :
          (vm_manager # None /\ StopVbox(n, o))
            => /\ LastCall'.raised = None
               /\ LastCall'.value \in BOOLEAN
               /\ o = "stop_vm_raises"
                    => (LastCall'.value = FALSE /\ running_vms' = running_vms)
               /\ LastCall'.value
                    => (o = "stopped" /\ n \notin Keys(running_vms')) ]_vars

\* vm-a was started; stopping it failed once and left it registered, then
\* succeeded and removed it.
C32_Witness ==
    /\ Len(history) = 3
    /\ StartReturned(history[1]) /\ history[1].arg = "vm-a"
    /\ history[2] = Outcome("stop_vbox", "vm-a", None, FALSE)
    /\ history[3] = Outcome("stop_vbox", "vm-a", None, TRUE)
    /\ running_vms = <<>>

\* The step is a call of one of the four VM operations.
VmOperation ==
    \/ \E n \in VmNameArgs, w \in BOOLEAN, o \in StartOutcomes : StartVbox(n, w, o)
    \/ \E n \in VmNameArgs, o \in StopOutcomes : StopVbox(n, o)
    \/ ListVms
    \/ \E n \in VmNameArgs, o \in StatusOutcomes : GetStatus(n, o)

(* C33: while no manager is set, start_vbox, stop_vbox, list_vms and       *)
(* get_status each raise the "not initialized" RuntimeError, whatever      *)
(* their argument, and leave the registry unchanged; once set_vm_manager   *)
(* has set a manager none of them raises that error.                       *)
C33_NoManagerFailsCleanly ==
    [][ VmOperation
          => /\ vm_manager = None
                  => /\ LastCall'.raised = NotInitialized
                     /\ running_vms' = running_vms
                     /\ vm_manager' = None
             /\ vm_manager # None => LastCall'.raised # NotInitialized ]_vars

\* start_vbox raised for want of a manager; after set_vm_manager the same
\* call returned and the VM is registered.
C33_Witness ==
    /\ Len(history) = 3
    /\ history[1] = Outcome("start_vbox", "vm-a", NotInitialized, None)
    /\ history[2] = Outcome("set_vm_manager", "LocalVMManager", None, None)
    /\ StartReturned(history[3]) /\ history[3].arg = "vm-a"
    /\ running_vms = <<"vm-a">>

\* The calls that set or clear LocalToolServer._session.
LifecycleCalls == {i \in 1..Len(history) : history[i].op \in {"start", "close"}}

\* The most recent of them is a start that returned.
StartedLast ==
    /\ LifecycleCalls # {}
    /\ LET i == CHOOSE k \in LifecycleCalls : \A j \in LifecycleCalls : j <= k
       IN history[i].op = "start" /\ history[i].raised = None

(* C34: a session exists exactly between a successful start and the next   *)
(* close; a start that fails closes the session it opened, raises          *)
(* RuntimeError and leaves no session; close never raises and changes      *)
(* nothing when there is no session; execute_tool without a session raises *)
(* RuntimeError, and with a session it raises nothing and returns the      *)
(* endpoint's result or a mapping with an `error` entry.                   *)
C34_ToolServerLifecycle ==
    [][ /\ (session' = "open") <=> StartedLast'
        /\ \A o \in ProbeOutcomes \ {"ok"} :
              ToolServerStart(o)
                => /\ LastCall'.raised = ConnectToolServerFailed
                   /\ tool_closes' = tool_closes + 1
                   /\ session' = "none"
        /\ ToolServerClose
              => /\ LastCall'.raised = None
                 /\ session' = "none"
        /\ \A o \in EndpointOutcomes :
              ToolServerExecute(o)
                => /\ session' = session
                   /\ session = "none" => LastCall'.raised = "Tool server not started"
                   /\ session = "open"
                        => /\ LastCall'.raised = None
                           /\ IF IsSuccess(o)
                              THEN LastCall'.value.output = "ok"
                              ELSE "error" \in DOMAIN LastCall'.value ]_vars

\* A start failed and left no session, so execute_tool raised; closing then
\* changed nothing.
C34_Witness ==
    /\ Len(history) = 3
    /\ history[1] = Outcome("start", None, ConnectToolServerFailed, None)
    /\ history[2] = Outcome("execute_tool", None, "Tool server not started", None)
    /\ history[3] = Outcome("close", None, None, None)
    /\ session = "none"

\* The position of command c in a call's log (0: it was not issued).
IssuedAt(h, c) ==
    IF \E k \in 1..Len(h.value.commands) : h.value.commands[k] = c
    THEN CHOOSE k \in 1..Len(h.value.commands) : h.value.commands[k] = c
    ELSE 0

\* The command of the call that changes the VM's state.
StateChanging(h) ==
    IF h.op = "start_vm" THEN StartVmCommand(h.arg) ELSE ControlVmCommand(h.arg)

(* C35: _start_vm issues no startvm when the VM is already running,        *)
(* _stop_vm issues no controlvm when the VM is not running, stop_vm stops  *)
(* the tunnel before it attempts to stop the VM, and two calls of start_vm *)
(* or of stop_vm in a row for one VM issue the state-changing command at   *)
(* most once.                                                              *)
C35_CommandsOnlyOnChange ==
    \A i \in 1..Len(history) :
        LET h == history[i]
        IN /\ h.op = "start_vm"
                => (h.value.was_running => IssuedAt(h, StartVmCommand(h.arg)) = 0)
           /\ h.op = "stop_vm"
                => /\ ~h.value.was_running => IssuedAt(h, ControlVmCommand(h.arg)) = 0
                   /\ vbox.tunnel_manager => h.value.commands[1] = StopTunnel(h.arg)
           /\ (/\ i < Len(history)
               /\ h.op \in {"start_vm", "stop_vm"}
               /\ history[i + 1].op = h.op
               /\ history[i + 1].arg = h.arg)
                => ~(/\ IssuedAt(h, StateChanging(h)) > 0
                     /\ IssuedAt(history[i + 1], StateChanging(h)) > 0)

\* The default the loop ends with for a name: that of its last definition.
LastDefault(defs, n) ==
    LET i == CHOOSE k \in 1..Len(defs) :
                 /\ defs[k].input_name = n
                 /\ \A j \in (k + 1)..Len(defs) : defs[j].input_name # n
    IN defs[i].default_value

(* C36: whenever validate_user_inputs_for_workflow returns, the keys of    *)
(* the result are exactly the input names the workflow defines and each    *)
(* value is the provided value if one was provided and otherwise the       *)
(* non-null default; it raises when a provided name is not defined, when   *)
(* a defined input has neither a provided value nor a default, and when    *)
(* the workflow defines more than one input and none is provided, even if  *)
(* every input has a default.                                              *)
C36_CompleteMappingOrRaise ==
    history # <<>>
      => LET defs == args.workflow_inputs
             provided == args.provided_inputs
             h == history[1]
         IN /\ h.raised = None
                 => /\ DOMAIN h.value = DefinedInputNames(defs)
                    /\ \A n \in DOMAIN h.value :
                          IF n \in DOMAIN provided
                          THEN h.value[n] = provided[n]
                          ELSE /\ h.value[n] # PyNone
                               /\ h.value[n] = LastDefault(defs, n)
            /\ (\E n \in DOMAIN provided : n \notin DefinedInputNames(defs))
                 => h.raised # None
            /\ (\E i \in 1..Len(defs) :
                    /\ defs[i].input_name \notin DOMAIN provided
                    /\ defs[i].default_value = PyNone)
                 => h.raised # None
            /\ (Len(defs) > 1 /\ DOMAIN provided = {}) => h.raised # None

\* Input a was provided and input b was not: the result holds the provided
\* value for a and the default for b.
C36_Witness ==
    /\ Len(history) = 1
    /\ Len(args.workflow_inputs) = 2
    /\ args.workflow_inputs[1] =
           [input_name |-> "a", input_type |-> "string", default_value |-> PyNone]
    /\ args.workflow_inputs[2] =
           [input_name |-> "b", input_type |-> "number", default_value |-> PyInt]
    /\ DOMAIN args.provided_inputs = {"a"}
    /\ args.provided_inputs["a"] = PyStr
    /\ history[1].raised = None
    /\ DOMAIN history[1].value = {"a", "b"}
    /\ history[1].value["a"] = PyStr
    /\ history[1].value["b"] = PyInt
====
